---- MODULE Spec2Model ----
(***************************************************************************)
(* Thermal control engine of the enclosure controller (SRC/Rev.2.3.ino).   *)
(*                                                                         *)
(* Temperatures are integers in hundredths of a degree Celsius; NAN is the *)
(* float NaN.  Every timestamp of the sketch (an unsigned long holding a   *)
(* millis() value) is kept as the time elapsed since it was taken, i.e.    *)
(* the value of `millis() - stamp` that the sketch computes wherever it    *)
(* reads the stamp; an elapsed time stops growing at the largest value it  *)
(* is ever compared with.  One action is one pass of loop().               *)
(***************************************************************************)
EXTENDS Integers, Sequences, FiniteSets, TLC

(* ----------------------------- constants ------------------------------ *)
NAN == -99999

SENSOR_DISCONNECTED == -12700
SENSOR_POWER_ON == 8500

NORMAL_MIN_DUTY == 51
FAN_LOW_DUTY == 140
FAN_HIGH_DUTY == 255

MENU_LEN == 8
MODE_CUSTOM == 5
MODE_COOLDOWN == 6
MODE_QR == 7

DS_CONV_MS == 750
TEMP_REQUEST_MS == 1000
DHT_MIN_INTERVAL_MS == 3500
DOUBLE_CLICK_MS == 250
STARTUP_PAUSE_MS == 1000

SERVO_OPEN_TIME == 850
SERVO_HALF_OPEN_TIME == 425
SERVO_CLOSE_TIME == 1100
SERVO_FULL_TO_HALF_TIME == 750

SERVO_STOP_PULSE == 1500
SERVO_FORWARD_PULSE == 2000
SERVO_REVERSE_PULSE == 1000

HYSTERESIS_TO_HALF == -100
HYSTERESIS_TO_CLOSED == -200
HYSTERESIS_TO_FULL == 200
HYSTERESIS_FROM_FULL == 100

FAULT_ASSERT_DIFF == 500
FAULT_CLEAR_DIFF == 200

COOLDOWN_RATE_DEG_PER_MIN == 150
COOLDOWN_RATE_TOLERANCE == 30
COOLDOWN_TARGET_OFFSET == 300
COOLDOWN_SAMPLE_MS == 60000
RPM_SAMPLE_MS == 1000
COOLDOWN_FALLBACK_TARGET == 2500
COOLDOWN_FINISH_MARGIN == 50
COOLDOWN_DUTY_STEP == 20
CUSTOM_MIN == 0
CUSTOM_MAX == 12000
CUSTOM_DEFAULT == 3000
CUSTOM_STEP == 50

\* menuTargets[] for the entries 0..7 (index + 1 here); -1/-2/-3 degrees mark
\* CUSTOM, COOLDOWN and QR CODE.
menuTargets == <<3000, 5000, 6000, 2500, 4000, -100, -200, -300>>

VentStates == {"VENT_CLOSED", "VENT_HALF_OPENING", "VENT_HALF_OPEN",
               "VENT_OPENING", "VENT_OPEN", "VENT_CLOSING"}
FanSpeeds == {"FAN_OFF", "FAN_LOW", "FAN_HIGH"}

(* ------------------------------- bounds ------------------------------- *)
\* Largest value kept for the time since the last cooldown sample.  A stamp
\* that no live session holds is never read before it is taken again (both
\* ways into cooldown mode re-take it), so the time since it is not tracked
\* and is kept as this value.
MaxCooldownElapsedMs == 120000

\* How long after a cooldown sample the passes of a live session are followed
\* one by one (one pass of the slow step); the next pass followed is the one
\* at the end of the sampling window.
MaxSettleMs == 3500

\* Cooldown duty from which the main specification explores no further
\* sampling window of the same session.
MaxCooldownDuty == 60

VARIABLES
  startupVentState, startupVentTimer, startupVentDone,
  servoPulse, ventState, ventActionStartMs,
  fanSpeed, fanDutyCycle, fanPower, fanPwm,
  menuIndex, inSubMenu, activeMode, customTarget, activeTarget,
  prefsActiveMode, prefsCustomTarget,
  lastBtn, waitingForSecondSHOW, lastBtnPressMs,
  lastDhtReadMs, ambientTemp,
  tempsRequested, lastTempRequestMs, chamberTemp, intakeTemp,
  intakeFault,
  cooldownLastTemp, cooldownLastCheckMs, cooldownFanDuty,
  cooldownEstSeconds, cooldownProgress,
  tach, tick, call

vars == <<startupVentState, startupVentTimer, startupVentDone,
          servoPulse, ventState, ventActionStartMs,
          fanSpeed, fanDutyCycle, fanPower, fanPwm,
          menuIndex, inSubMenu, activeMode, customTarget, activeTarget,
          prefsActiveMode, prefsCustomTarget,
          lastBtn, waitingForSecondSHOW, lastBtnPressMs,
          lastDhtReadMs, ambientTemp,
          tempsRequested, lastTempRequestMs, chamberTemp, intakeTemp,
          intakeFault,
          cooldownLastTemp, cooldownLastCheckMs, cooldownFanDuty,
          cooldownEstSeconds, cooldownProgress,
          tach, tick, call>>

(* ------------------------------ helpers ------------------------------- *)
isnan(x) == x = NAN

Max(a, b) == IF a >= b THEN a ELSE b

constrain(x, lo, hi) == IF x < lo THEN lo ELSE IF x > hi THEN hi ELSE x

\* C++ integer remainder: truncates toward zero, the sign follows the dividend.
CRem(a, n) == IF a >= 0 THEN a % n ELSE -((-a) % n)

\* C++ integer division of a by a positive b: truncates toward zero.
CDiv(a, b) == IF a >= 0 THEN a \div b ELSE -((-a) \div b)

\* millis() - stamp after dt more milliseconds; cap is the largest value the
\* sketch compares the difference with.
Elapse(e, dt, cap) == IF e + dt > cap THEN cap ELSE e + dt

\* cooldownLastCheckMs still holds its initial literal 0 (never stamped).
STAMP_ZERO == -1

RECURSIVE GCD(_, _)
GCD(a, b) == IF b = 0 THEN a ELSE GCD(b, a % b)

\* A float in [0,1] kept exactly as numerator/denominator.
Frac(n, d) == <<n, d>>
ZeroFrac == Frac(0, 1)
OneFrac == Frac(1, 1)

(* ---------------------- the state as one record ----------------------- *)
\* The globals of the sketch, read by the operators below that model its
\* functions: each takes the state before the call and yields the state after.
State ==
  [startupVentState |-> startupVentState, startupVentTimer |-> startupVentTimer,
   startupVentDone |-> startupVentDone,
   servoPulse |-> servoPulse, ventState |-> ventState,
   ventActionStartMs |-> ventActionStartMs,
   fanSpeed |-> fanSpeed, fanDutyCycle |-> fanDutyCycle,
   fanPower |-> fanPower, fanPwm |-> fanPwm,
   menuIndex |-> menuIndex, inSubMenu |-> inSubMenu, activeMode |-> activeMode,
   customTarget |-> customTarget, activeTarget |-> activeTarget,
   prefsActiveMode |-> prefsActiveMode, prefsCustomTarget |-> prefsCustomTarget,
   lastBtn |-> lastBtn, waitingForSecondSHOW |-> waitingForSecondSHOW,
   lastBtnPressMs |-> lastBtnPressMs,
   lastDhtReadMs |-> lastDhtReadMs, ambientTemp |-> ambientTemp,
   tempsRequested |-> tempsRequested, lastTempRequestMs |-> lastTempRequestMs,
   chamberTemp |-> chamberTemp, intakeTemp |-> intakeTemp,
   intakeFault |-> intakeFault,
   cooldownLastTemp |-> cooldownLastTemp,
   cooldownLastCheckMs |-> cooldownLastCheckMs,
   cooldownFanDuty |-> cooldownFanDuty,
   cooldownEstSeconds |-> cooldownEstSeconds,
   cooldownProgress |-> cooldownProgress,
   tach |-> tach,
   tick |-> tick]

Becomes(s) ==
  /\ startupVentState' = s.startupVentState
  /\ startupVentTimer' = s.startupVentTimer
  /\ startupVentDone' = s.startupVentDone
  /\ servoPulse' = s.servoPulse
  /\ ventState' = s.ventState
  /\ ventActionStartMs' = s.ventActionStartMs
  /\ fanSpeed' = s.fanSpeed
  /\ fanDutyCycle' = s.fanDutyCycle
  /\ fanPower' = s.fanPower
  /\ fanPwm' = s.fanPwm
  /\ menuIndex' = s.menuIndex
  /\ inSubMenu' = s.inSubMenu
  /\ activeMode' = s.activeMode
  /\ customTarget' = s.customTarget
  /\ activeTarget' = s.activeTarget
  /\ prefsActiveMode' = s.prefsActiveMode
  /\ prefsCustomTarget' = s.prefsCustomTarget
  /\ lastBtn' = s.lastBtn
  /\ waitingForSecondSHOW' = s.waitingForSecondSHOW
  /\ lastBtnPressMs' = s.lastBtnPressMs
  /\ lastDhtReadMs' = s.lastDhtReadMs
  /\ ambientTemp' = s.ambientTemp
  /\ tempsRequested' = s.tempsRequested
  /\ lastTempRequestMs' = s.lastTempRequestMs
  /\ chamberTemp' = s.chamberTemp
  /\ intakeTemp' = s.intakeTemp
  /\ intakeFault' = s.intakeFault
  /\ cooldownLastTemp' = s.cooldownLastTemp
  /\ cooldownLastCheckMs' = s.cooldownLastCheckMs
  /\ cooldownFanDuty' = s.cooldownFanDuty
  /\ cooldownEstSeconds' = s.cooldownEstSeconds
  /\ cooldownProgress' = s.cooldownProgress
  /\ tach' = s.tach
  /\ tick' = s.tick

\* The variables hold the record s (the unprimed form of Becomes).
Is(s) ==
  /\ startupVentState = s.startupVentState
  /\ startupVentTimer = s.startupVentTimer
  /\ startupVentDone = s.startupVentDone
  /\ servoPulse = s.servoPulse
  /\ ventState = s.ventState
  /\ ventActionStartMs = s.ventActionStartMs
  /\ fanSpeed = s.fanSpeed
  /\ fanDutyCycle = s.fanDutyCycle
  /\ fanPower = s.fanPower
  /\ fanPwm = s.fanPwm
  /\ menuIndex = s.menuIndex
  /\ inSubMenu = s.inSubMenu
  /\ activeMode = s.activeMode
  /\ customTarget = s.customTarget
  /\ activeTarget = s.activeTarget
  /\ prefsActiveMode = s.prefsActiveMode
  /\ prefsCustomTarget = s.prefsCustomTarget
  /\ lastBtn = s.lastBtn
  /\ waitingForSecondSHOW = s.waitingForSecondSHOW
  /\ lastBtnPressMs = s.lastBtnPressMs
  /\ lastDhtReadMs = s.lastDhtReadMs
  /\ ambientTemp = s.ambientTemp
  /\ tempsRequested = s.tempsRequested
  /\ lastTempRequestMs = s.lastTempRequestMs
  /\ chamberTemp = s.chamberTemp
  /\ intakeTemp = s.intakeTemp
  /\ intakeFault = s.intakeFault
  /\ cooldownLastTemp = s.cooldownLastTemp
  /\ cooldownLastCheckMs = s.cooldownLastCheckMs
  /\ cooldownFanDuty = s.cooldownFanDuty
  /\ cooldownEstSeconds = s.cooldownEstSeconds
  /\ cooldownProgress = s.cooldownProgress
  /\ tach = s.tach
  /\ tick = s.tick

(* ------------------------- history of a pass -------------------------- *)
\* tick records what the last pass of loop() did: evalRan (the mode-active
\* control branch ran), faultWas (intakeFault when the pass began), web (the
\* request handleClient served).
NoTick == [evalRan |-> FALSE, faultWas |-> FALSE, web |-> "none", window |-> "none"]

BeginTick(s) == [s EXCEPT !.tick = [NoTick EXCEPT !.faultWas = s.intakeFault]]

NoteEval(s) == [s EXCEPT !.tick.evalRan = TRUE]

NoteWeb(s, web) == [s EXCEPT !.tick.web = web]

\* kind is the branch of the cooldown sampling window taken in this pass.
NoteWindow(s, kind) == [s EXCEPT !.tick.window = kind]

(* --------------------------- vent actuator ---------------------------- *)
\* Mutant: the half command drives the servo in the opening direction from
\* every state it acts in, the fully open one included.
startOpenVent_halfReverse(s, half) ==
  LET open == IF half
              THEN s.ventState \in {"VENT_CLOSED", "VENT_OPENING", "VENT_CLOSING",
                                    "VENT_OPEN"}
              ELSE s.ventState \in {"VENT_CLOSED", "VENT_HALF_OPEN",
                                    "VENT_HALF_OPENING", "VENT_CLOSING"}
  IN IF open
     THEN [s EXCEPT !.ventState = IF half THEN "VENT_HALF_OPENING" ELSE "VENT_OPENING",
                    !.ventActionStartMs = 0,
                    !.servoPulse = SERVO_REVERSE_PULSE]
     ELSE s

startOpenVent(s, half) ==
  LET open == IF half
              THEN s.ventState \in {"VENT_CLOSED", "VENT_OPENING", "VENT_CLOSING",
                                    "VENT_OPEN"}
              ELSE s.ventState \in {"VENT_CLOSED", "VENT_HALF_OPEN",
                                    "VENT_HALF_OPENING", "VENT_CLOSING"}
      pulse == IF half /\ s.ventState = "VENT_OPEN"
               THEN SERVO_FORWARD_PULSE ELSE SERVO_REVERSE_PULSE
  IN IF open
     THEN [s EXCEPT !.ventState = IF half THEN "VENT_HALF_OPENING" ELSE "VENT_OPENING",
                    !.ventActionStartMs = 0,
                    !.servoPulse = pulse]
     ELSE s

\* Mutant: the close command restarts the closing travel whatever the state.
startCloseVent_always(s) ==
  [s EXCEPT !.ventState = "VENT_CLOSING",
            !.ventActionStartMs = 0,
            !.servoPulse = SERVO_FORWARD_PULSE]

startCloseVent(s) ==
  IF s.ventState \in {"VENT_OPEN", "VENT_HALF_OPEN", "VENT_OPENING", "VENT_HALF_OPENING"}
  THEN [s EXCEPT !.ventState = "VENT_CLOSING",
                 !.ventActionStartMs = 0,
                 !.servoPulse = SERVO_FORWARD_PULSE]
  ELSE s

\* Mutant: the travel to half takes the half-open time whatever the direction.
processVentState_oneHalfTime(s) ==
  IF s.ventState = "VENT_OPENING" /\ s.ventActionStartMs >= SERVO_OPEN_TIME
  THEN [s EXCEPT !.servoPulse = SERVO_STOP_PULSE, !.ventState = "VENT_OPEN"]
  ELSE IF s.ventState = "VENT_HALF_OPENING" /\ s.ventActionStartMs >= SERVO_HALF_OPEN_TIME
  THEN [s EXCEPT !.servoPulse = SERVO_STOP_PULSE, !.ventState = "VENT_HALF_OPEN"]
  ELSE IF s.ventState = "VENT_CLOSING" /\ s.ventActionStartMs >= SERVO_CLOSE_TIME
  THEN [s EXCEPT !.servoPulse = SERVO_STOP_PULSE, !.ventState = "VENT_CLOSED"]
  ELSE s

\* Mutant: a travel ends one pass after its time has elapsed.
processVentState_late(s) ==
  LET t == IF s.ventState = "VENT_HALF_OPENING" /\ s.servoPulse = SERVO_FORWARD_PULSE
           THEN SERVO_FULL_TO_HALF_TIME
           ELSE IF s.ventState = "VENT_HALF_OPENING" THEN SERVO_HALF_OPEN_TIME
           ELSE IF s.ventState = "VENT_OPENING" THEN SERVO_OPEN_TIME
           ELSE SERVO_CLOSE_TIME
  IN IF s.ventState = "VENT_OPENING" /\ s.ventActionStartMs > SERVO_OPEN_TIME
     THEN [s EXCEPT !.servoPulse = SERVO_STOP_PULSE, !.ventState = "VENT_OPEN"]
     ELSE IF s.ventState = "VENT_HALF_OPENING" /\ s.ventActionStartMs > t
     THEN [s EXCEPT !.servoPulse = SERVO_STOP_PULSE, !.ventState = "VENT_HALF_OPEN"]
     ELSE IF s.ventState = "VENT_CLOSING" /\ s.ventActionStartMs > SERVO_CLOSE_TIME
     THEN [s EXCEPT !.servoPulse = SERVO_STOP_PULSE, !.ventState = "VENT_CLOSED"]
     ELSE s

\* Mutant: a travel that ends leaves the servo driven.
processVentState_keepsPulse(s) ==
  LET t == IF s.ventState = "VENT_HALF_OPENING" /\ s.servoPulse = SERVO_FORWARD_PULSE
           THEN SERVO_FULL_TO_HALF_TIME
           ELSE IF s.ventState = "VENT_HALF_OPENING" THEN SERVO_HALF_OPEN_TIME
           ELSE IF s.ventState = "VENT_OPENING" THEN SERVO_OPEN_TIME
           ELSE SERVO_CLOSE_TIME
  IN IF s.ventState = "VENT_OPENING" /\ s.ventActionStartMs >= SERVO_OPEN_TIME
     THEN [s EXCEPT !.ventState = "VENT_OPEN"]
     ELSE IF s.ventState = "VENT_HALF_OPENING" /\ s.ventActionStartMs >= t
     THEN [s EXCEPT !.ventState = "VENT_HALF_OPEN"]
     ELSE IF s.ventState = "VENT_CLOSING" /\ s.ventActionStartMs >= SERVO_CLOSE_TIME
     THEN [s EXCEPT !.ventState = "VENT_CLOSED"]
     ELSE s

processVentState(s) ==
  LET t == IF s.ventState = "VENT_HALF_OPENING" /\ s.servoPulse = SERVO_FORWARD_PULSE
           THEN SERVO_FULL_TO_HALF_TIME
           ELSE IF s.ventState = "VENT_HALF_OPENING" THEN SERVO_HALF_OPEN_TIME
           ELSE IF s.ventState = "VENT_OPENING" THEN SERVO_OPEN_TIME
           ELSE SERVO_CLOSE_TIME
  IN IF s.ventState = "VENT_OPENING" /\ s.ventActionStartMs >= SERVO_OPEN_TIME
     THEN [s EXCEPT !.servoPulse = SERVO_STOP_PULSE, !.ventState = "VENT_OPEN"]
     ELSE IF s.ventState = "VENT_HALF_OPENING" /\ s.ventActionStartMs >= t
     THEN [s EXCEPT !.servoPulse = SERVO_STOP_PULSE, !.ventState = "VENT_HALF_OPEN"]
     ELSE IF s.ventState = "VENT_CLOSING" /\ s.ventActionStartMs >= SERVO_CLOSE_TIME
     THEN [s EXCEPT !.servoPulse = SERVO_STOP_PULSE, !.ventState = "VENT_CLOSED"]
     ELSE s

(* ---------------------------- fan actuator ---------------------------- *)
\* fanPower is FAN_POWER_PIN (TRUE = HIGH, power enabled); fanPwm is the duty
\* written to the PWM output, on the 0..255 scale.
\* Mutant: power is cut only for d = 0 (the policy of the earlier revision),
\* so a duty below the minimum is driven with power enabled.
setFanDuty_killOnlyZero(s, d, allowBelow20) ==
  IF allowBelow20 /\ d = 0
  THEN [s EXCEPT !.fanDutyCycle = d, !.fanPower = FALSE, !.fanPwm = 0]
  ELSE [s EXCEPT !.fanDutyCycle = d, !.fanPower = TRUE,
                 !.fanPwm = IF allowBelow20 THEN d ELSE Max(d, NORMAL_MIN_DUTY)]

\* Mutant: the power line is never cut (the PWM value alone stops the fan).
setFanDuty_noKill(s, d, allowBelow20) ==
  [s EXCEPT !.fanDutyCycle = d, !.fanPower = TRUE,
            !.fanPwm = IF allowBelow20 THEN d ELSE Max(d, NORMAL_MIN_DUTY)]

\* Mutant: the minimum is not enforced when allowBelow20 is false.
setFanDuty_noFloor(s, d, allowBelow20) ==
  IF allowBelow20 /\ d < NORMAL_MIN_DUTY
  THEN [s EXCEPT !.fanDutyCycle = d, !.fanPower = FALSE, !.fanPwm = 0]
  ELSE [s EXCEPT !.fanDutyCycle = d, !.fanPower = TRUE, !.fanPwm = d]

setFanDuty(s, d, allowBelow20) ==
  IF allowBelow20 /\ d < NORMAL_MIN_DUTY
  THEN [s EXCEPT !.fanDutyCycle = d, !.fanPower = FALSE, !.fanPwm = 0]
  ELSE [s EXCEPT !.fanDutyCycle = d, !.fanPower = TRUE,
                 !.fanPwm = IF allowBelow20 THEN d ELSE Max(d, NORMAL_MIN_DUTY)]

updateFan(s, sp) ==
  IF sp # s.fanSpeed
  THEN LET duty == IF sp = "FAN_HIGH" THEN FAN_HIGH_DUTY
                   ELSE IF sp = "FAN_LOW" THEN FAN_LOW_DUTY ELSE 0
       IN setFanDuty([s EXCEPT !.fanSpeed = sp], duty, sp = "FAN_OFF")
  ELSE s

(* ------------------------ network command handler --------------------- *)
\* Mutant: a request received while cooldown is active ends the mode.
handleStartCooldown_toggle(s) ==
  IF s.inSubMenu /\ s.activeMode = MODE_COOLDOWN
  THEN startCloseVent(updateFan([s EXCEPT !.inSubMenu = FALSE], "FAN_OFF"))
  ELSE LET s1 == [s EXCEPT !.activeMode = MODE_COOLDOWN,
                           !.inSubMenu = TRUE,
                           !.activeTarget = menuTargets[MODE_COOLDOWN + 1],
                           !.prefsActiveMode = MODE_COOLDOWN,
                           !.cooldownLastCheckMs = 0,
                           !.cooldownLastTemp = s.chamberTemp,
                           !.cooldownFanDuty = 0,
                           !.cooldownEstSeconds = -1]
       IN startOpenVent(setFanDuty(s1, 0, TRUE), FALSE)

\* Mutant: the request handler leaves the fan output as it finds it.
handleStartCooldown_keepFan(s) ==
  LET s1 == [s EXCEPT !.activeMode = MODE_COOLDOWN,
                      !.inSubMenu = TRUE,
                      !.activeTarget = menuTargets[MODE_COOLDOWN + 1],
                      !.prefsActiveMode = MODE_COOLDOWN,
                      !.cooldownLastCheckMs = 0,
                      !.cooldownLastTemp = s.chamberTemp,
                      !.cooldownFanDuty = 0,
                      !.cooldownEstSeconds = -1]
  IN startOpenVent(s1, FALSE)

handleStartCooldown(s) ==
  LET s1 == [s EXCEPT !.activeMode = MODE_COOLDOWN,
                      !.inSubMenu = TRUE,
                      !.activeTarget = menuTargets[MODE_COOLDOWN + 1],
                      !.prefsActiveMode = MODE_COOLDOWN,
                      !.cooldownLastCheckMs = 0,
                      !.cooldownLastTemp = s.chamberTemp,
                      !.cooldownFanDuty = 0,
                      !.cooldownEstSeconds = -1]
  IN startOpenVent(setFanDuty(s1, 0, TRUE), FALSE)

(* ----------------------------- tachometer ----------------------------- *)
\* The longest time since the last RPM sample that is told apart.
MaxRpmElapsedMs == 2000

\* tach holds fanPulseCount, lastRpmMs (as time since the stamp) and
\* currentFanRPM (an exact quotient), and the position of the RPM block of
\* loop(): pc ("loop" outside the block, then "read", "reset", "enable",
\* "compute"), its local p, whether interrupts are enabled (ie) and whether a
\* tach edge is latched while they are not (pending).
NoTach ==
  [fanPulseCount |-> 0, lastRpmMs |-> 0, currentFanRPM |-> ZeroFrac,
   pc |-> "loop", p |-> 0, ie |-> TRUE, pending |-> FALSE]

\* fanPulseCount++ (the counter is drained long before 2^32 pulses).
fanPulseISR(s) == [s EXCEPT !.tach.fanPulseCount = @ + 1]

\* Mutant: interrupts stay enabled in the RPM block.
noInterrupts_absent(s) == s

noInterrupts(s) == [s EXCEPT !.tach.ie = FALSE]

\* interrupts(): a latched edge is served as soon as interrupts are enabled.
interrupts(s) ==
  LET s1 == [s EXCEPT !.tach.ie = TRUE, !.tach.pending = FALSE]
  IN IF s.tach.pending THEN fanPulseISR(s1) ELSE s1

RpmDue(s) == s.tach.lastRpmMs >= RPM_SAMPLE_MS

RpmRead(s) == [s EXCEPT !.tach.p = s.tach.fanPulseCount]

RpmReset(s) == [s EXCEPT !.tach.fanPulseCount = 0]

\* Mutant: the pulses are scaled for the nominal one-second window.
RpmOf_nominal(p, elapsedMs) ==
  IF p > 0 THEN Frac(p * 30, 1) ELSE ZeroFrac

\* (p > 0) ? (p * 60.0f * 1000.0f) / (elapsedMs * 2.0f) : 0.0f, as an exact
\* quotient in lowest terms.
RpmOf(p, elapsedMs) ==
  IF p > 0
  THEN Frac((p * 60 * 1000) \div GCD(p * 60 * 1000, elapsedMs * 2),
            (elapsedMs * 2) \div GCD(p * 60 * 1000, elapsedMs * 2))
  ELSE ZeroFrac

RpmCompute(s) ==
  [s EXCEPT !.tach.currentFanRPM = RpmOf(s.tach.p, s.tach.lastRpmMs),
            !.tach.lastRpmMs = 0, !.tach.p = 0]

\* The RPM block of loop() run without a tach edge arriving inside it.
RpmStep(s) ==
  IF RpmDue(s)
  THEN RpmCompute(interrupts(RpmReset(RpmRead(noInterrupts(s)))))
  ELSE s

(* ------------------------------ time ---------------------------------- *)
\* A cooldown session whose last-sample stamp is read by the rate controller.
CooldownLive(s) ==
  s.inSubMenu /\ s.activeMode = MODE_COOLDOWN /\ s.cooldownLastCheckMs # STAMP_ZERO

\* dt more milliseconds on millis(): every `millis() - stamp` grows by dt.
Advance(s, dt) ==
  [s EXCEPT
     !.startupVentTimer = Elapse(@, dt, SERVO_CLOSE_TIME),
     !.ventActionStartMs = Elapse(@, dt, SERVO_CLOSE_TIME),
     !.lastBtnPressMs = Elapse(@, dt, DOUBLE_CLICK_MS + 1),
     !.lastDhtReadMs = Elapse(@, dt, DHT_MIN_INTERVAL_MS),
     !.lastTempRequestMs = Elapse(@, dt, TEMP_REQUEST_MS),
     !.tach.lastRpmMs = Elapse(@, dt, MaxRpmElapsedMs),
     !.cooldownLastCheckMs =
        IF @ = STAMP_ZERO THEN @
        ELSE IF CooldownLive(s) THEN Elapse(@, dt, MaxCooldownElapsedMs)
        ELSE MaxCooldownElapsedMs]

\* The times the next pass may come after: one of the pass intervals dts, or,
\* for a live cooldown session, the moment its sampling window ends.  A live
\* session is followed pass by pass for MaxSettleMs after a sample and then
\* seen again when the window ends; it is not taken into another window once
\* its duty has reached maxDuty.
PassTimes(s, dts, maxDuty) ==
  IF ~CooldownLive(s) THEN dts
  ELSE {dt \in dts : dt = 0 \/ s.cooldownLastCheckMs + dt <= MaxSettleMs}
       \cup (IF s.cooldownLastCheckMs < COOLDOWN_SAMPLE_MS /\ s.cooldownFanDuty < maxDuty
             THEN {COOLDOWN_SAMPLE_MS - s.cooldownLastCheckMs} ELSE {})

(* ------------------------ startup calibration ------------------------- *)
\* Mutant: after the pause at the open position the servo is driven in the
\* opening direction again.
StartupStep_reopens(s) ==
  LET e == s.startupVentTimer
      next(pulse, st) == [s EXCEPT !.servoPulse = pulse, !.startupVentState = st,
                                   !.startupVentTimer = 0]
  IN CASE s.startupVentState = "VENT_START_CLOSING" /\ e >= SERVO_CLOSE_TIME ->
            next(SERVO_STOP_PULSE, "VENT_START_WAIT_CLOSED")
       [] s.startupVentState = "VENT_START_WAIT_CLOSED" /\ e >= STARTUP_PAUSE_MS ->
            next(SERVO_REVERSE_PULSE, "VENT_START_OPENING")
       [] s.startupVentState = "VENT_START_OPENING" /\ e >= SERVO_OPEN_TIME ->
            next(SERVO_STOP_PULSE, "VENT_START_WAIT_OPEN")
       [] s.startupVentState = "VENT_START_WAIT_OPEN" /\ e >= STARTUP_PAUSE_MS ->
            next(SERVO_REVERSE_PULSE, "VENT_START_CLOSING_AGAIN")
       [] s.startupVentState = "VENT_START_CLOSING_AGAIN" /\ e >= SERVO_CLOSE_TIME ->
            next(SERVO_STOP_PULSE, "VENT_START_WAIT_CLOSED_AGAIN")
       [] s.startupVentState = "VENT_START_WAIT_CLOSED_AGAIN" /\ e >= STARTUP_PAUSE_MS ->
            [s EXCEPT !.servoPulse = SERVO_STOP_PULSE, !.ventState = "VENT_CLOSED",
                      !.startupVentDone = TRUE]
       [] OTHER -> s

StartupStep(s) ==
  LET e == s.startupVentTimer
      next(pulse, st) == [s EXCEPT !.servoPulse = pulse, !.startupVentState = st,
                                   !.startupVentTimer = 0]
  IN CASE s.startupVentState = "VENT_START_CLOSING" /\ e >= SERVO_CLOSE_TIME ->
            next(SERVO_STOP_PULSE, "VENT_START_WAIT_CLOSED")
       [] s.startupVentState = "VENT_START_WAIT_CLOSED" /\ e >= STARTUP_PAUSE_MS ->
            next(SERVO_REVERSE_PULSE, "VENT_START_OPENING")
       [] s.startupVentState = "VENT_START_OPENING" /\ e >= SERVO_OPEN_TIME ->
            next(SERVO_STOP_PULSE, "VENT_START_WAIT_OPEN")
       [] s.startupVentState = "VENT_START_WAIT_OPEN" /\ e >= STARTUP_PAUSE_MS ->
            next(SERVO_FORWARD_PULSE, "VENT_START_CLOSING_AGAIN")
       [] s.startupVentState = "VENT_START_CLOSING_AGAIN" /\ e >= SERVO_CLOSE_TIME ->
            next(SERVO_STOP_PULSE, "VENT_START_WAIT_CLOSED_AGAIN")
       [] s.startupVentState = "VENT_START_WAIT_CLOSED_AGAIN" /\ e >= STARTUP_PAUSE_MS ->
            [s EXCEPT !.servoPulse = SERVO_STOP_PULSE, !.ventState = "VENT_CLOSED",
                      !.startupVentDone = TRUE]
       [] OTHER -> s

(* --------------------------- encoder, button -------------------------- *)
\* d = lastEncoderCount - c, the movement since the previous pass.
EncoderStep(s, d) ==
  IF d = 0 THEN s
  ELSE IF ~s.inSubMenu
  THEN [s EXCEPT !.menuIndex = CRem(s.menuIndex + d + MENU_LEN, MENU_LEN)]
  ELSE IF s.activeMode = MODE_CUSTOM
  THEN LET ct == constrain(s.customTarget + CUSTOM_STEP * d, CUSTOM_MIN, CUSTOM_MAX)
       IN [s EXCEPT !.customTarget = ct, !.activeTarget = ct, !.prefsCustomTarget = ct]
  ELSE s

\* The vent/fan preset applied when a mode is selected from the main menu.
SelectPreset(s) ==
  IF ~isnan(s.chamberTemp)
  THEN IF s.chamberTemp > s.activeTarget + HYSTERESIS_TO_FULL
       THEN updateFan(startOpenVent(s, FALSE), "FAN_HIGH")
       ELSE IF s.chamberTemp > s.activeTarget + HYSTERESIS_TO_HALF
       THEN updateFan(startOpenVent(s, TRUE), "FAN_LOW")
       ELSE updateFan(s, "FAN_OFF")
  ELSE updateFan(s, "FAN_OFF")

\* The cooldown session started by selecting COOLDOWN with the button.
SelectCooldown(s) ==
  IF s.activeMode = MODE_COOLDOWN
  THEN LET s1 == [s EXCEPT !.cooldownLastCheckMs = 0,
                           !.cooldownLastTemp = s.chamberTemp,
                           !.cooldownFanDuty = 0,
                           !.cooldownEstSeconds = -1]
       IN startOpenVent(setFanDuty(s1, 0, TRUE), FALSE)
  ELSE s

\* Mutant: the selected mode is not written to persistent storage.
SelectMode_noPut(s) ==
  LET s1 == [s EXCEPT !.activeMode = s.menuIndex,
                      !.activeTarget = IF s.menuIndex = MODE_CUSTOM THEN s.customTarget
                                       ELSE menuTargets[s.menuIndex + 1],
                      !.inSubMenu = TRUE,
                      !.waitingForSecondSHOW = FALSE,
                      !.lastBtnPressMs = 0]
  IN SelectCooldown(SelectPreset(s1))

SelectMode(s) ==
  LET s1 == [s EXCEPT !.activeMode = s.menuIndex,
                      !.activeTarget = IF s.menuIndex = MODE_CUSTOM THEN s.customTarget
                                       ELSE menuTargets[s.menuIndex + 1],
                      !.prefsActiveMode = s.menuIndex,
                      !.inSubMenu = TRUE,
                      !.waitingForSecondSHOW = FALSE,
                      !.lastBtnPressMs = 0]
  IN SelectCooldown(SelectPreset(s1))

\* The double-click safe exit.
ExitMode(s) ==
  startCloseVent(updateFan([s EXCEPT !.inSubMenu = FALSE,
                                     !.waitingForSecondSHOW = FALSE], "FAN_OFF"))

\* btn is the level read from the button pin: TRUE = HIGH (released).
ButtonStep(s, btn) ==
  LET s1 == IF s.lastBtn /\ ~btn
            THEN IF ~s.inSubMenu /\ s.menuIndex # MODE_QR
                 THEN SelectMode(s)
                 ELSE IF s.waitingForSecondSHOW /\ s.lastBtnPressMs <= DOUBLE_CLICK_MS
                 THEN ExitMode(s)
                 ELSE [s EXCEPT !.waitingForSecondSHOW = TRUE, !.lastBtnPressMs = 0]
            ELSE s
      s2 == [s1 EXCEPT !.lastBtn = btn]
  IN IF s2.waitingForSecondSHOW /\ s2.lastBtnPressMs > DOUBLE_CLICK_MS
     THEN [s2 EXCEPT !.waitingForSecondSHOW = FALSE]
     ELSE s2

(* ------------------------------ sensors ------------------------------- *)
DhtDue(s) == s.lastDhtReadMs >= DHT_MIN_INTERVAL_MS

\* t is what dht.readTemperature() returns (NAN on a failed read).
DhtStep(s, t) ==
  IF DhtDue(s)
  THEN [s EXCEPT !.ambientTemp = IF ~isnan(t) /\ t > -4000 /\ t < 8000 THEN t ELSE @,
                 !.lastDhtReadMs = 0]
  ELSE s

requestTempsNonBlocking(s) ==
  [s EXCEPT !.tempsRequested = TRUE, !.lastTempRequestMs = 0]

\* c and i are what getTempCByIndex(0) returns for the two probes.
readTempsAfterDelay(s, c, i) ==
  [s EXCEPT
     !.chamberTemp = IF c = SENSOR_DISCONNECTED \/ c = SENSOR_POWER_ON THEN NAN ELSE c,
     !.intakeTemp = IF i = SENSOR_DISCONNECTED \/ i = SENSOR_POWER_ON THEN NAN ELSE i,
     !.tempsRequested = FALSE]

ReadDue(s) == s.tempsRequested /\ s.lastTempRequestMs >= DS_CONV_MS

\* Mutant: the probes are read on the pass after the request, without
\* waiting for the conversion.
TempStep_readsEarly(s, c, i) ==
  IF ~s.tempsRequested /\ s.lastTempRequestMs >= TEMP_REQUEST_MS
  THEN requestTempsNonBlocking(s)
  ELSE IF s.tempsRequested THEN readTempsAfterDelay(s, c, i)
  ELSE s

TempStep(s, c, i) ==
  IF ~s.tempsRequested /\ s.lastTempRequestMs >= TEMP_REQUEST_MS
  THEN requestTempsNonBlocking(s)
  ELSE IF ReadDue(s) THEN readTempsAfterDelay(s, c, i)
  ELSE s

(* ---------------------------- fault monitor --------------------------- *)
\* Mutant: the fault asserts at the clearing threshold (no dead zone).
FaultStep_noDeadZone(s) ==
  IF ~s.intakeFault /\ ~isnan(s.intakeTemp)
     /\ s.intakeTemp > s.chamberTemp + FAULT_CLEAR_DIFF
  THEN updateFan(startOpenVent([s EXCEPT !.intakeFault = TRUE], FALSE), "FAN_HIGH")
  ELSE IF s.intakeFault /\ ~isnan(s.intakeTemp)
          /\ s.intakeTemp <= s.chamberTemp + FAULT_CLEAR_DIFF
  THEN [s EXCEPT !.intakeFault = FALSE]
  ELSE s

\* Mutant: an asserted fault is never cleared.
FaultStep_noClear(s) ==
  IF ~s.intakeFault /\ ~isnan(s.intakeTemp)
     /\ s.intakeTemp > s.chamberTemp + FAULT_ASSERT_DIFF
  THEN updateFan(startOpenVent([s EXCEPT !.intakeFault = TRUE], FALSE), "FAN_HIGH")
  ELSE s

FaultStep(s) ==
  IF ~s.intakeFault /\ ~isnan(s.intakeTemp)
     /\ s.intakeTemp > s.chamberTemp + FAULT_ASSERT_DIFF
  THEN updateFan(startOpenVent([s EXCEPT !.intakeFault = TRUE], FALSE), "FAN_HIGH")
  ELSE IF s.intakeFault /\ ~isnan(s.intakeTemp)
          /\ s.intakeTemp <= s.chamberTemp + FAULT_CLEAR_DIFF
  THEN [s EXCEPT !.intakeFault = FALSE]
  ELSE s

(* -------------------------- cooldown controller ----------------------- *)

\* constrain(n / d, 0.0, 1.0) for d > 0, in lowest terms.
ClampFrac(n, d) ==
  IF n <= 0 THEN ZeroFrac
  ELSE IF n >= d THEN OneFrac
  ELSE Frac(n \div GCD(n, d), d \div GCD(n, d))

CooldownTarget(s) ==
  IF isnan(s.ambientTemp) THEN COOLDOWN_FALLBACK_TARGET
  ELSE s.ambientTemp + COOLDOWN_TARGET_OFFSET

CooldownFinished(s) == s.chamberTemp <= CooldownTarget(s) + COOLDOWN_FINISH_MARGIN

\* Mutant: the duty is raised when the chamber cools too fast and lowered
\* when it cools too slowly.
CooldownAdj_reversed(drop, elapsed) ==
  IF drop * 60000 < (COOLDOWN_RATE_DEG_PER_MIN - COOLDOWN_RATE_TOLERANCE) * elapsed
  THEN -COOLDOWN_DUTY_STEP
  ELSE IF drop * 60000 > (COOLDOWN_RATE_DEG_PER_MIN + COOLDOWN_RATE_TOLERANCE) * elapsed
  THEN COOLDOWN_DUTY_STEP
  ELSE 0

\* The duty adjustment for a drop (hundredths of a degree) over elapsed ms:
\* dpm = drop * 60000 / elapsed degrees per minute, compared with 1.5 -+ 0.3.
CooldownAdj(drop, elapsed) ==
  IF drop * 60000 < (COOLDOWN_RATE_DEG_PER_MIN - COOLDOWN_RATE_TOLERANCE) * elapsed
  THEN COOLDOWN_DUTY_STEP
  ELSE IF drop * 60000 > (COOLDOWN_RATE_DEG_PER_MIN + COOLDOWN_RATE_TOLERANCE) * elapsed
  THEN -COOLDOWN_DUTY_STEP
  ELSE 0

\* (long)(rem / rate * 60.0f) with rate = drop * 60000 / elapsed, when the
\* guards of the estimate hold; the previous estimate otherwise.
CooldownEstimate(s, drop, total, elapsed) ==
  LET rem == s.chamberTemp - CooldownTarget(s)
  IN IF drop > 10 /\ total > 50 /\ elapsed > 1000
        /\ drop * 60000 > 10 * elapsed /\ rem > 0
     THEN CDiv(rem * elapsed, drop * 1000)
     ELSE s.cooldownEstSeconds

\* Mutant: the adjusted duty is stored in eight bits without being
\* constrained first.
CooldownAdjust_wraps(s) ==
  LET elapsed == s.cooldownLastCheckMs
      drop == s.cooldownLastTemp - s.chamberTemp
      duty == (s.cooldownFanDuty + CooldownAdj(drop, elapsed) + 256) % 256
      total == s.cooldownLastTemp - CooldownTarget(s)
      s1 == setFanDuty([s EXCEPT !.cooldownFanDuty = duty], duty, TRUE)
  IN [s1 EXCEPT !.cooldownProgress = IF total > 50 THEN ClampFrac(drop, total)
                                     ELSE OneFrac,
                !.cooldownEstSeconds = CooldownEstimate(s, drop, total, elapsed)]

\* The sampling-window step of an unfinished session.
CooldownAdjust(s) ==
  LET elapsed == s.cooldownLastCheckMs
      drop == s.cooldownLastTemp - s.chamberTemp
      duty == constrain(s.cooldownFanDuty + CooldownAdj(drop, elapsed), 0, 255)
      total == s.cooldownLastTemp - CooldownTarget(s)
      s1 == setFanDuty([s EXCEPT !.cooldownFanDuty = duty], duty, TRUE)
  IN [s1 EXCEPT !.cooldownProgress = IF total > 50 THEN ClampFrac(drop, total)
                                     ELSE OneFrac,
                !.cooldownEstSeconds = CooldownEstimate(s, drop, total, elapsed)]

\* Mutant: the finished session stops the fan and leaves the vent alone.
CooldownFinish_keepVent(s) ==
  [setFanDuty(s, 0, TRUE) EXCEPT !.cooldownEstSeconds = 0,
                                 !.cooldownProgress = OneFrac]

CooldownFinish(s) ==
  [startCloseVent(setFanDuty(s, 0, TRUE)) EXCEPT !.cooldownEstSeconds = 0,
                                                 !.cooldownProgress = OneFrac]

\* Mutant: the last sample is taken again on every pass.
CooldownStep_resamples(s) ==
  LET s1 == [s EXCEPT !.cooldownLastCheckMs = 0,
                      !.cooldownLastTemp = s.chamberTemp]
      s2 == IF ~CooldownFinished(s1) /\ s1.ventState # "VENT_OPEN"
               /\ s1.ventState # "VENT_OPENING"
            THEN startOpenVent(s1, FALSE)
            ELSE s1
  IN IF s2.cooldownLastCheckMs >= COOLDOWN_SAMPLE_MS
     THEN [(IF CooldownFinished(s2) THEN NoteWindow(CooldownFinish(s2), "finish")
            ELSE NoteWindow(CooldownAdjust(s2), "adjust"))
             EXCEPT !.cooldownLastTemp = s2.chamberTemp,
                    !.cooldownLastCheckMs = 0]
     ELSE s2

CooldownStep(s) ==
  LET s1 == IF s.cooldownLastCheckMs = STAMP_ZERO \/ isnan(s.cooldownLastTemp)
            THEN [s EXCEPT !.cooldownLastCheckMs = 0,
                           !.cooldownLastTemp = s.chamberTemp]
            ELSE s
      s2 == IF ~CooldownFinished(s1) /\ s1.ventState # "VENT_OPEN"
               /\ s1.ventState # "VENT_OPENING"
            THEN startOpenVent(s1, FALSE)
            ELSE s1
  IN IF s2.cooldownLastCheckMs >= COOLDOWN_SAMPLE_MS
     THEN [(IF CooldownFinished(s2) THEN NoteWindow(CooldownFinish(s2), "finish")
            ELSE NoteWindow(CooldownAdjust(s2), "adjust"))
             EXCEPT !.cooldownLastTemp = s2.chamberTemp,
                    !.cooldownLastCheckMs = 0]
     ELSE s2

(* ------------------------- hysteresis controller ---------------------- *)
\* Mutant: the closed vent opens to half with the reading on the band edge
\* (>= where > belongs).
NormalStep_halfAtEdge(s) ==
  IF s.ventState = "VENT_CLOSED"
  THEN IF s.chamberTemp > s.activeTarget + HYSTERESIS_TO_FULL
       THEN updateFan(startOpenVent(s, FALSE), "FAN_HIGH")
       ELSE IF s.chamberTemp >= s.activeTarget + HYSTERESIS_TO_HALF
       THEN updateFan(startOpenVent(s, TRUE), "FAN_LOW")
       ELSE s
  ELSE IF s.ventState \in {"VENT_HALF_OPEN", "VENT_HALF_OPENING"}
  THEN IF s.chamberTemp < s.activeTarget + HYSTERESIS_TO_CLOSED
       THEN updateFan(startCloseVent(s), "FAN_OFF")
       ELSE IF s.chamberTemp > s.activeTarget + HYSTERESIS_TO_FULL
       THEN updateFan(startOpenVent(s, FALSE), "FAN_HIGH")
       ELSE s
  ELSE IF s.ventState \in {"VENT_OPEN", "VENT_OPENING"}
  THEN IF s.chamberTemp <= s.activeTarget + HYSTERESIS_FROM_FULL
       THEN updateFan(startOpenVent(s, TRUE), "FAN_LOW")
       ELSE s
  ELSE s

\* Mutant: the half-open vent closes below the band that opens it fully
\* (HYSTERESIS_TO_FULL used where HYSTERESIS_TO_CLOSED belongs).
NormalStep_closeBelowFull(s) ==
  IF s.ventState = "VENT_CLOSED"
  THEN IF s.chamberTemp > s.activeTarget + HYSTERESIS_TO_FULL
       THEN updateFan(startOpenVent(s, FALSE), "FAN_HIGH")
       ELSE IF s.chamberTemp > s.activeTarget + HYSTERESIS_TO_HALF
       THEN updateFan(startOpenVent(s, TRUE), "FAN_LOW")
       ELSE s
  ELSE IF s.ventState \in {"VENT_HALF_OPEN", "VENT_HALF_OPENING"}
  THEN IF s.chamberTemp < s.activeTarget + HYSTERESIS_TO_FULL
       THEN updateFan(startCloseVent(s), "FAN_OFF")
       ELSE IF s.chamberTemp > s.activeTarget + HYSTERESIS_TO_FULL
       THEN updateFan(startOpenVent(s, FALSE), "FAN_HIGH")
       ELSE s
  ELSE IF s.ventState \in {"VENT_OPEN", "VENT_OPENING"}
  THEN IF s.chamberTemp <= s.activeTarget + HYSTERESIS_FROM_FULL
       THEN updateFan(startOpenVent(s, TRUE), "FAN_LOW")
       ELSE s
  ELSE s

\* Mutant: the fully open vent is closed directly once the reading is below
\* the closing band.
NormalStep_closesFromFull(s) ==
  IF s.ventState = "VENT_CLOSED"
  THEN IF s.chamberTemp > s.activeTarget + HYSTERESIS_TO_FULL
       THEN updateFan(startOpenVent(s, FALSE), "FAN_HIGH")
       ELSE IF s.chamberTemp > s.activeTarget + HYSTERESIS_TO_HALF
       THEN updateFan(startOpenVent(s, TRUE), "FAN_LOW")
       ELSE s
  ELSE IF s.ventState \in {"VENT_HALF_OPEN", "VENT_HALF_OPENING"}
  THEN IF s.chamberTemp < s.activeTarget + HYSTERESIS_TO_CLOSED
       THEN updateFan(startCloseVent(s), "FAN_OFF")
       ELSE IF s.chamberTemp > s.activeTarget + HYSTERESIS_TO_FULL
       THEN updateFan(startOpenVent(s, FALSE), "FAN_HIGH")
       ELSE s
  ELSE IF s.ventState \in {"VENT_OPEN", "VENT_OPENING"}
  THEN IF s.chamberTemp < s.activeTarget + HYSTERESIS_TO_CLOSED
       THEN updateFan(startCloseVent(s), "FAN_OFF")
       ELSE IF s.chamberTemp <= s.activeTarget + HYSTERESIS_FROM_FULL
       THEN updateFan(startOpenVent(s, TRUE), "FAN_LOW")
       ELSE s
  ELSE s

NormalStep(s) ==
  IF s.ventState = "VENT_CLOSED"
  THEN IF s.chamberTemp > s.activeTarget + HYSTERESIS_TO_FULL
       THEN updateFan(startOpenVent(s, FALSE), "FAN_HIGH")
       ELSE IF s.chamberTemp > s.activeTarget + HYSTERESIS_TO_HALF
       THEN updateFan(startOpenVent(s, TRUE), "FAN_LOW")
       ELSE s
  ELSE IF s.ventState \in {"VENT_HALF_OPEN", "VENT_HALF_OPENING"}
  THEN IF s.chamberTemp < s.activeTarget + HYSTERESIS_TO_CLOSED
       THEN updateFan(startCloseVent(s), "FAN_OFF")
       ELSE IF s.chamberTemp > s.activeTarget + HYSTERESIS_TO_FULL
       THEN updateFan(startOpenVent(s, FALSE), "FAN_HIGH")
       ELSE s
  ELSE IF s.ventState \in {"VENT_OPEN", "VENT_OPENING"}
  THEN IF s.chamberTemp <= s.activeTarget + HYSTERESIS_FROM_FULL
       THEN updateFan(startOpenVent(s, TRUE), "FAN_LOW")
       ELSE s
  ELSE s

(* --------------------- the control section of loop() ------------------ *)
\* Mutant of the branch below: the vent is left as it is.
IdleStep_keepVent(s) == updateFan(s, "FAN_OFF")

\* The branch taken when no mode is active or the chamber reading is unknown.
IdleStep(s) == startCloseVent(updateFan(s, "FAN_OFF"))

ModeStep(s) ==
  LET s1 == FaultStep(NoteEval(s))
  IN IF s1.intakeFault THEN updateFan(s1, "FAN_HIGH")
     ELSE IF s1.activeMode = MODE_COOLDOWN THEN CooldownStep(s1)
     ELSE NormalStep(s1)

ControlStep(s) ==
  IF s.inSubMenu /\ ~isnan(s.chamberTemp) THEN ModeStep(s) ELSE IdleStep(s)

\* server.handleClient(): the request served in this pass, if any.
handleClient(s, web) ==
  IF web = "start_cooldown" THEN handleStartCooldown(NoteWeb(s, web))
  ELSE NoteWeb(s, web)

(* ------------------------------ loop() -------------------------------- *)
\* One pass after calibration, dt ms after the previous one, with the inputs
\* it reads: encoder movement d, button level btn, DHT reading t, probe
\* readings c and i, and the network request web.
LoopBody(s, d, btn, t, c, i, web) ==
  LET s1 == ButtonStep(EncoderStep(RpmStep(BeginTick(s)), d), btn)
      s2 == TempStep(DhtStep(s1, t), c, i)
      s3 == processVentState(ControlStep(s2))
  IN handleClient(s3, web)

\* The pass while the startup calibration runs: it returns before anything else.
StartupBody(s) == StartupStep(BeginTick(s))

(* ---------------------------- environment ----------------------------- *)
\* What the surroundings may do between and during passes: dt (ms between
\* passes), turns (encoder movements), menuStops (menu entries the knob is
\* left on), customStops (custom targets dialled), chamber/intake (raw probe
\* readings), ambient (DHT readings), web (network requests), maxDuty (the
\* cooldown duty from which no further sampling window is explored).
MainEnv ==
  [dt |-> {0, 3500},
   turns |-> {-2, 0, 2},
   menuStops |-> {0, 6},
   customStops |-> {3000},
   chamber |-> {SENSOR_DISCONNECTED, 2700, 3300},
   intake |-> {SENSOR_DISCONNECTED, 3100, 3300},
   ambient |-> {2500},
   web |-> {"none", "start_cooldown"},
   maxDuty |-> MaxCooldownDuty]

EncoderMoves(s, env) ==
  {d \in env.turns : \/ d = 0
                     \/ /\ EncoderStep(s, d) # s
                        /\ EncoderStep(s, d).menuIndex \in env.menuStops
                        /\ EncoderStep(s, d).customTarget \in env.customStops}

StartupPass(env) ==
  /\ ~startupVentDone
  /\ \E dt \in PassTimes(State, env.dt, env.maxDuty) :
       Becomes(StartupBody(Advance(State, dt)))
  /\ UNCHANGED call

ControlPass(env) ==
  /\ startupVentDone
  /\ \E dt \in PassTimes(State, env.dt, env.maxDuty) :
          LET s == Advance(State, dt)
          IN \E d \in EncoderMoves(s, env), btn \in BOOLEAN, web \in env.web :
             \E t \in (IF DhtDue(s) THEN env.ambient ELSE {NAN}) :
             \E c \in (IF ReadDue(s) THEN env.chamber ELSE {NAN}) :
             \E i \in (IF ReadDue(s) THEN env.intake ELSE {NAN}) :
                Becomes(LoopBody(s, d, btn, t, c, i, web))
  /\ UNCHANGED call

(* ------------------------------ setup() ------------------------------- *)
\* storedMode and storedCustom are the values found in persistent storage.
Setup(storedMode, storedCustom) ==
  LET mode == IF storedMode < 0 \/ storedMode >= MENU_LEN THEN 0 ELSE storedMode
      \* both comparisons are false for a stored NaN
      custom == IF ~isnan(storedCustom)
                   /\ (storedCustom < CUSTOM_MIN \/ storedCustom > CUSTOM_MAX)
                THEN CUSTOM_DEFAULT ELSE storedCustom
  IN [startupVentState |-> "VENT_START_CLOSING", startupVentTimer |-> 0,
      startupVentDone |-> FALSE,
      servoPulse |-> SERVO_FORWARD_PULSE, ventState |-> "VENT_CLOSED",
      ventActionStartMs |-> 0,
      fanSpeed |-> "FAN_OFF", fanDutyCycle |-> 0, fanPower |-> FALSE, fanPwm |-> 0,
      menuIndex |-> mode, inSubMenu |-> TRUE, activeMode |-> mode,
      customTarget |-> custom,
      activeTarget |-> IF mode = MODE_CUSTOM THEN custom ELSE menuTargets[mode + 1],
      prefsActiveMode |-> storedMode, prefsCustomTarget |-> custom,
      lastBtn |-> TRUE, waitingForSecondSHOW |-> FALSE, lastBtnPressMs |-> 0,
      lastDhtReadMs |-> DHT_MIN_INTERVAL_MS, ambientTemp |-> NAN,
      tempsRequested |-> TRUE, lastTempRequestMs |-> 0,
      chamberTemp |-> NAN, intakeTemp |-> NAN,
      intakeFault |-> FALSE,
      cooldownLastTemp |-> 0, cooldownLastCheckMs |-> STAMP_ZERO,
      cooldownFanDuty |-> 0, cooldownEstSeconds |-> 0, cooldownProgress |-> ZeroFrac,
      tach |-> NoTach,
      tick |-> NoTick]

\* call holds the arguments of a function applied on its own, and whether
\* the application has been made.
NoCall == [op |-> "none", d |-> 0, allow |-> FALSE, done |-> TRUE]

\* The state after setup(), for stored values drawn from the given sets.
InitFrom(storedModes, storedCustoms) ==
  /\ \E m \in storedModes, ct \in storedCustoms : Is(Setup(m, ct))
  /\ call = NoCall

Init == InitFrom({0}, {3000})

Next == StartupPass(MainEnv) \/ ControlPass(MainEnv)

Spec == Init /\ [][Next]_vars

(* ------------------- setFanDuty applied on its own -------------------- *)
UINT8_MAX == 255

InitFan ==
  /\ Is(Setup(0, CUSTOM_DEFAULT))
  /\ call \in [op : {"setFanDuty"}, d : 0..UINT8_MAX, allow : BOOLEAN, done : {FALSE}]

CallSetFanDuty ==
  /\ call.op = "setFanDuty" /\ ~call.done
  /\ Becomes(setFanDuty(State, call.d, call.allow))
  /\ call' = [call EXCEPT !.done = TRUE]

SpecFan == InitFan /\ [][CallSetFanDuty]_vars

(* ======================================================================= *)
(*                               properties                                *)
(* ======================================================================= *)
Valid(x) == ~isnan(x)

\* The position a vent state is at or moving to.
VentTarget(vs) ==
  IF vs \in {"VENT_CLOSED", "VENT_CLOSING"} THEN "closed"
  ELSE IF vs \in {"VENT_HALF_OPENING", "VENT_HALF_OPEN"} THEN "half"
  ELSE "full"

FanKilled == fanDutyCycle = 0 /\ fanPwm = 0 /\ ~fanPower

\* The fan command that goes with a vent position in the normal modes.
FanFor(vs) ==
  IF VentTarget(vs) = "closed" THEN "FAN_OFF"
  ELSE IF VentTarget(vs) = "half" THEN "FAN_LOW" ELSE "FAN_HIGH"

\* C1: at the end of every pass after calibration with a mode active, the
\* chamber reading valid and the intake fault asserted, the fan is at maximum
\* (duty 255, power enabled).  Stated for the passes that served no network
\* command, so that the fan is what the control section left.
C1_FaultFanAtMax ==
  (startupVentDone /\ inSubMenu /\ Valid(chamberTemp) /\ intakeFault
     /\ tick.web = "none")
    => (fanDutyCycle = FAN_HIGH_DUTY /\ fanPwm = FAN_HIGH_DUTY /\ fanPower)

\* C2: at the end of every pass after calibration with a mode active and the
\* intake fault asserted, the vent is opening fully or fully open.  Stated for
\* the passes whose fault evaluation ran (chamber reading valid), whatever the
\* readings were before.
C2_FaultVentFull ==
  (startupVentDone /\ inSubMenu /\ intakeFault /\ tick.evalRan)
    => ventState \in {"VENT_OPENING", "VENT_OPEN"}

\* C3: whenever no mode is active after calibration (from the pass that
\* processed the safe exit on), the fan is stopped (PWM 0, power cut) and the
\* vent is closing or closed.
C3_ExitHardReset ==
  (startupVentDone /\ ~inSubMenu)
    => (fanPwm = 0 /\ ~fanPower /\ ventState \in {"VENT_CLOSING", "VENT_CLOSED"})

\* C4: in a pass whose fault evaluation runs, the fault flag becomes asserted
\* iff it was clear and intake - chamber > 5.0 with the intake reading valid,
\* becomes clear iff it was asserted and intake - chamber <= 2.0 with the
\* intake reading valid, and otherwise (dead zone, intake unknown) keeps its
\* value.
C4_FaultLatch ==
  [][tick'.evalRan =>
       LET valid == Valid(intakeTemp')
           diff == intakeTemp' - chamberTemp'
       IN /\ (intakeFault' /\ ~intakeFault)
               <=> (~intakeFault /\ valid /\ diff > FAULT_ASSERT_DIFF)
          /\ (~intakeFault' /\ intakeFault)
               <=> (intakeFault /\ valid /\ diff <= FAULT_CLEAR_DIFF)
          /\ (~valid => intakeFault' = intakeFault)]_vars

\* C4 witness: an asserted fault kept through an evaluation in the dead zone.
C4_Witness ==
  /\ tick.evalRan /\ tick.faultWas /\ intakeFault /\ Valid(intakeTemp)
  /\ intakeTemp - chamberTemp > FAULT_CLEAR_DIFF
  /\ intakeTemp - chamberTemp <= FAULT_ASSERT_DIFF

\* A pass after calibration with a mode active from its beginning to its end,
\* no network command served, and the chamber reading unknown at its end.
UnknownChamberPass ==
  /\ startupVentDone /\ inSubMenu /\ inSubMenu'
  /\ tick'.web = "none" /\ isnan(chamberTemp')

C7_MinDutyFloor ==
  /\ fanPower => fanPwm >= NORMAL_MIN_DUTY
  /\ (startupVentDone /\ inSubMenu /\ activeMode # MODE_COOLDOWN /\ fanPwm > 0)
       => (fanPower /\ fanPwm >= NORMAL_MIN_DUTY)

\* C7 witness: a fan running at the Low command in a normal mode.
C7_Witness ==
  /\ startupVentDone /\ inSubMenu /\ activeMode # MODE_COOLDOWN
  /\ fanSpeed = "FAN_LOW" /\ fanPower /\ fanPwm = FAN_LOW_DUTY

PassAfterFaultCleared ==
  /\ tick.evalRan /\ tick.faultWas /\ ~intakeFault /\ tick.web = "none"
  /\ inSubMenu /\ tick'.evalRan /\ ~intakeFault' /\ tick'.web = "none"
  /\ activeMode' = activeMode

\* C10: by the end of the pass after the one that cleared the fault, the
\* outputs are those of the active mode: in an unfinished cooldown session the
\* fan output is the cooldown controller's duty, in a normal mode the fan
\* command is the one that goes with the vent position.
C10_ModeResumesAfterFault ==
  [][PassAfterFaultCleared =>
       /\ (activeMode' = MODE_COOLDOWN /\ ~CooldownFinished(State')) =>
             fanDutyCycle' = cooldownFanDuty'
       /\ activeMode' # MODE_COOLDOWN => fanSpeed' = FanFor(ventState')]_vars

(* ======================================================================= *)
(*               a normal mode on a constant chamber reading               *)
(* ======================================================================= *)
\* The vent states the sketch can be in after calibration, each with the
\* servo output that goes with it.
VentConfigs ==
  {<<"VENT_CLOSED", SERVO_STOP_PULSE>>, <<"VENT_HALF_OPEN", SERVO_STOP_PULSE>>,
   <<"VENT_OPEN", SERVO_STOP_PULSE>>, <<"VENT_OPENING", SERVO_REVERSE_PULSE>>,
   <<"VENT_HALF_OPENING", SERVO_REVERSE_PULSE>>,
   <<"VENT_HALF_OPENING", SERVO_FORWARD_PULSE>>,
   <<"VENT_CLOSING", SERVO_FORWARD_PULSE>>}

StableVent == {"VENT_CLOSED", "VENT_HALF_OPEN", "VENT_OPEN"}

\* The state once calibration has completed, before any reading or command.
Calibrated(storedMode) ==
  [Setup(storedMode, CUSTOM_DEFAULT) EXCEPT
     !.startupVentDone = TRUE,
     !.startupVentState = "VENT_START_WAIT_CLOSED_AGAIN",
     !.startupVentTimer = SERVO_CLOSE_TIME,
     !.servoPulse = SERVO_STOP_PULSE,
     !.ventActionStartMs = SERVO_CLOSE_TIME,
     !.lastBtnPressMs = DOUBLE_CLICK_MS + 1]

\* A mode running with chamber reading T and intake reading I, the vent in
\* configuration vc (just commanded if it is moving) and the fan command sp.
Running(mode, T, I, vc, sp) ==
  updateFan([Calibrated(mode) EXCEPT
               !.chamberTemp = T, !.intakeTemp = I, !.ambientTemp = 2500,
               !.tempsRequested = FALSE,
               !.ventState = vc[1], !.servoPulse = vc[2],
               !.ventActionStartMs = IF vc[1] \in StableVent
                                     THEN SERVO_CLOSE_TIME ELSE 0], sp)

\* Offsets of the held reading from the target, in hundredths of a degree:
\* on, between and beyond the four band edges.
HoldOffsets == {-300, -200, -150, -100, -50, 0, 100, 150, 200, 250}

HoldModes == {0, 3}

HoldDts == {300, 3500}

\* Passes counted from the start of a run on a held reading; the count stops
\* growing here.
MaxHoldPasses == 10

\* Changes of vent state counted likewise.
MaxHoldChanges == 6

InitHold ==
  /\ \E m \in HoldModes, off \in HoldOffsets, vc \in VentConfigs, sp \in FanSpeeds :
        Is(Running(m, menuTargets[m + 1] + off, menuTargets[m + 1] + off, vc, sp))
  /\ call = [op |-> "hold", from |-> ventState, passes |-> 0, changes |-> 0]

\* A pass with no input and the probes reading what they read before, some
\* time after the previous one.
HoldPass ==
  /\ \E dt \in HoldDts :
        Becomes(LoopBody(Advance(State, dt), 0, TRUE, ambientTemp,
                         chamberTemp, intakeTemp, "none"))
  /\ call' = [call EXCEPT
                !.passes = IF @ < MaxHoldPasses THEN @ + 1 ELSE @,
                !.changes = IF ventState' # ventState /\ @ < MaxHoldChanges
                            THEN @ + 1 ELSE @]

SpecHold == InitHold /\ [][HoldPass]_vars

\* Passes after which a vent on a held reading has settled: every pass comes
\* at least 300 ms after the one before, and the longest way to a stable state
\* is the 1100 ms of closing followed by the 850 ms of opening fully.
HoldSettlePasses == 8

\* C11: in a normal mode with the fault clear and the chamber reading held
\* constant, from any vent state, the vent changes state at most three times;
\* after HoldSettlePasses passes it is in a stable state (Closed, HalfOpen or
\* FullOpen) and from then on neither the vent state nor the fan command
\* changes; and a Closed vent with Target-2 < T < Target-1 stays Closed.
C11_NoOscillation ==
  /\ [](call.op = "hold" => call.changes <= 3)
  /\ []((call.op = "hold" /\ call.passes >= HoldSettlePasses)
          => ventState \in StableVent)
  /\ [][(call.op = "hold" /\ call.passes >= HoldSettlePasses)
          => (ventState' = ventState /\ fanSpeed' = fanSpeed)]_vars
  /\ [][(/\ call.op = "hold" /\ ventState = "VENT_CLOSED"
         /\ chamberTemp > activeTarget + HYSTERESIS_TO_CLOSED
         /\ chamberTemp < activeTarget + HYSTERESIS_TO_HALF)
        => ventState' = "VENT_CLOSED"]_vars

\* C11 witness: a vent that started opening fully on a reading below every
\* band has turned to half-open, then to closing, and has closed and settled.
C11_Witness ==
  /\ call.op = "hold" /\ call.from = "VENT_OPENING" /\ call.changes = 3
  /\ call.passes >= HoldSettlePasses
  /\ chamberTemp < activeTarget + HYSTERESIS_TO_CLOSED
  /\ ventState = "VENT_CLOSED" /\ fanSpeed = "FAN_OFF"

(* ======================================================================= *)
(*                    PLA on a rising chamber reading                      *)
(* ======================================================================= *)
\* The scenario's readings, in hundredths of a degree: from 28.0 to 33.0.
RISE_FROM == 2800
RISE_TO == 3300

\* How much a reading may exceed the one before.
RiseSteps == {0, 50, 100}

RiseDts == {500, 1000}

InitRise ==
  /\ Is(Running(0, RISE_FROM, SENSOR_DISCONNECTED, <<"VENT_CLOSED", SERVO_STOP_PULSE>>,
                "FAN_OFF"))
  /\ call = [op |-> "rise"]

\* A pass with no input; a chamber reading collected in it is the previous
\* one or higher, a disconnected intake probe keeps the fault monitor silent.
RisePass ==
  /\ \E dt \in RiseDts, st \in RiseSteps :
        /\ chamberTemp + st <= RISE_TO
        /\ Becomes(LoopBody(Advance(State, dt), 0, TRUE, ambientTemp,
                            chamberTemp + st, SENSOR_DISCONNECTED, "none"))
  /\ UNCHANGED call

SpecRise == InitRise /\ [][RisePass]_vars

HalfWay == {"VENT_HALF_OPENING", "VENT_HALF_OPEN"}
FullWay == {"VENT_OPENING", "VENT_OPEN"}

\* C12 as claimed: PLA (target 30.0) on a rising reading: the closed vent
\* starts opening to half with fan Low on the pass whose reading is 29.0, and
\* the half-open vent starts opening fully with fan High on the pass whose
\* reading is 32.0.
C12_OpensAtEdges ==
  [][/\ (ventState = "VENT_CLOSED" /\ chamberTemp' = 2900)
          => (ventState' \in HalfWay /\ fanSpeed' = "FAN_LOW")
     /\ (ventState \in HalfWay /\ chamberTemp' = 3200)
          => (ventState' \in FullWay /\ fanSpeed' = "FAN_HIGH")]_vars

\* C12 amended: the closed vent stays closed with fan Off on every pass whose
\* reading is 29.0 or less and starts opening to half with fan Low on the
\* first pass whose reading is above 29.0; the half-open vent stays at half
\* with fan Low up to and including 32.0 and starts opening fully with fan
\* High on the first pass whose reading is above 32.0.
C12_OpensAboveEdges ==
  [][/\ (ventState = "VENT_CLOSED" /\ chamberTemp' <= 2900)
          => (ventState' = "VENT_CLOSED" /\ fanSpeed' = "FAN_OFF")
     /\ (ventState = "VENT_CLOSED" /\ chamberTemp' > 2900 /\ chamberTemp' <= 3200)
          => (ventState' = "VENT_HALF_OPENING" /\ fanSpeed' = "FAN_LOW")
     /\ (ventState \in HalfWay /\ chamberTemp' <= 3200)
          => (ventState' \in HalfWay /\ fanSpeed' = "FAN_LOW")
     /\ (ventState \in HalfWay /\ chamberTemp' > 3200)
          => (ventState' = "VENT_OPENING" /\ fanSpeed' = "FAN_HIGH")]_vars

\* C12 witness: the control section has run on a reading of exactly 32.0 and
\* the vent is still half open with fan Low.
C12_Witness ==
  /\ call.op = "rise" /\ tick.evalRan /\ chamberTemp = 3200
  /\ ventState = "VENT_HALF_OPEN" /\ fanSpeed = "FAN_LOW"

(* ======================================================================= *)
(*                  the vent commands applied on their own                 *)
(* ======================================================================= *)
\* The pulses startOpenVent(half) writes to the servo, in order.
OpenVentWrites(s, half) ==
  LET open == IF half
              THEN s.ventState \in {"VENT_CLOSED", "VENT_OPENING", "VENT_CLOSING",
                                    "VENT_OPEN"}
              ELSE s.ventState \in {"VENT_CLOSED", "VENT_HALF_OPEN",
                                    "VENT_HALF_OPENING", "VENT_CLOSING"}
      pulse == IF half /\ s.ventState = "VENT_OPEN"
               THEN SERVO_FORWARD_PULSE ELSE SERVO_REVERSE_PULSE
  IN IF open THEN <<SERVO_STOP_PULSE, pulse>> ELSE <<>>

\* The pulses startCloseVent() writes to the servo, in order.
CloseVentWrites(s) ==
  IF s.ventState \in {"VENT_OPEN", "VENT_HALF_OPEN", "VENT_OPENING", "VENT_HALF_OPENING"}
  THEN <<SERVO_STOP_PULSE, SERVO_FORWARD_PULSE>>
  ELSE <<>>

VentCommands ==
  {[op |-> "startOpenVent", half |-> FALSE], [op |-> "startOpenVent", half |-> TRUE],
   [op |-> "startCloseVent", half |-> FALSE]}

\* Times since the vent was last commanded, at the start of a run.
VentStamps == {0, 300, SERVO_CLOSE_TIME}

\* How many times the command is issued in a run.
MaxVentCalls == 3

InitVent ==
  /\ \E vc \in VentConfigs, e \in VentStamps :
        Is([Running(0, NAN, NAN, vc, "FAN_OFF") EXCEPT !.ventActionStartMs = e])
  /\ \E c \in VentCommands :
        call = [op |-> c.op, half |-> c.half, n |-> 0, writes |-> <<>>]

\* The command of the run is issued once more.
CallVent ==
  /\ call.op \in {"startOpenVent", "startCloseVent"} /\ call.n < MaxVentCalls
  /\ IF call.op = "startOpenVent"
     THEN /\ Becomes(startOpenVent(State, call.half))
          /\ call' = [call EXCEPT !.n = @ + 1,
                                  !.writes = OpenVentWrites(State, call.half)]
     ELSE /\ Becomes(startCloseVent(State))
          /\ call' = [call EXCEPT !.n = @ + 1, !.writes = CloseVentWrites(State)]

\* Time passes and processVentState() runs.
VentTime ==
  /\ call.op \in {"startOpenVent", "startCloseVent"}
  /\ ventActionStartMs < SERVO_CLOSE_TIME
  /\ Becomes(processVentState(Advance(State, 300)))
  /\ call' = [call EXCEPT !.writes = <<>>]

SpecVent == InitVent /\ [][CallVent \/ VentTime]_vars

\* The vent is at, or moving to, the position the command of the run asks for.
AtCommanded ==
  \/ call.op = "startOpenVent" /\ ~call.half /\ ventState \in FullWay
  \/ call.op = "startOpenVent" /\ call.half /\ ventState \in HalfWay
  \/ call.op = "startCloseVent" /\ ventState \in {"VENT_CLOSING", "VENT_CLOSED"}

\* C13: open(full) issued while OpeningFull or FullOpen, open(half) while
\* OpeningHalf or HalfOpen, and close() while Closing or Closed change neither
\* the vent state nor the transition start time nor the servo output and write
\* no pulse, each time the command is issued.
C13_VentIdempotent ==
  [][(call'.n = call.n + 1 /\ AtCommanded)
       => /\ ventState' = ventState
          /\ ventActionStartMs' = ventActionStartMs
          /\ servoPulse' = servoPulse
          /\ call'.writes = <<>>]_vars

\* C13 witness: open(full) has been issued three times, the last two with the
\* vent already fully open.
C13_Witness ==
  /\ call.op = "startOpenVent" /\ ~call.half /\ call.n = MaxVentCalls
  /\ ventState = "VENT_OPEN" /\ servoPulse = SERVO_STOP_PULSE /\ call.writes = <<>>

(* ======================================================================= *)
(*                 loop() from power-up, with its inputs                   *)
(* ======================================================================= *)
\* Mutant: the calibration block does not return, the rest of the pass runs.
loop_noReturn(s, d, btn, t, c, i, web) ==
  IF ~s.startupVentDone
  THEN LoopBody(StartupStep(s), d, btn, t, c, i, web)
  ELSE LoopBody(s, d, btn, t, c, i, web)

\* One pass of loop(), whatever the calibration has reached.
loop(s, d, btn, t, c, i, web) ==
  IF ~s.startupVentDone
  THEN StartupBody(s)
  ELSE LoopBody(s, d, btn, t, c, i, web)

StartupDts == {0, 500}

\* Time counted from power-up; the count stops growing here.
MaxStartupMs == 9000

\* Passes followed after calibration has completed.
MaxAfterPasses == 2

\* call.offered is what the surroundings presented to the last pass (encoder
\* movement, button level, network request); call.ms the time since power-up
\* while calibrating; call.phaseMs the time spent in the current calibration
\* phase and call.lastPhaseMs the time the previous phase took.
InitStartup ==
  /\ \E m \in {0, MODE_COOLDOWN} : Is(Setup(m, CUSTOM_DEFAULT))
  /\ call = [op |-> "startup", offered |-> [d |-> 0, btn |-> TRUE, web |-> "none"],
             ms |-> 0, phaseMs |-> 0, lastPhaseMs |-> 0, after |-> 0]

StartupLoopPass ==
  /\ call.op = "startup"
  /\ ~startupVentDone \/ call.after < MaxAfterPasses
  /\ \E dt \in StartupDts, d \in {0, 2}, btn \in BOOLEAN,
        web \in {"none", "start_cooldown"}, i \in {SENSOR_DISCONNECTED, 4000} :
        /\ Becomes(loop(Advance(State, dt), d, btn, 2500, 3300, i, web))
        /\ call' =
             IF startupVentDone
             THEN [call EXCEPT !.offered = [d |-> d, btn |-> btn, web |-> web],
                               !.after = @ + 1]
             ELSE [call EXCEPT
                     !.offered = [d |-> d, btn |-> btn, web |-> web],
                     !.ms = IF @ + dt > MaxStartupMs THEN MaxStartupMs ELSE @ + dt,
                     !.phaseMs = IF startupVentState' # startupVentState
                                    \/ startupVentDone'
                                 THEN 0 ELSE @ + dt,
                     !.lastPhaseMs = IF startupVentState' # startupVentState
                                        \/ startupVentDone'
                                     THEN call.phaseMs + dt ELSE @]

SpecStartup == InitStartup /\ [][StartupLoopPass]_vars

\* C14: while the startup calibration has not completed, no pass changes the
\* vent state, the fan command or output (hard-killed throughout), the fault
\* flag, the active mode, the mode-active flag or the menu position, whatever
\* button level, encoder movement, network request and probe readings are
\* presented to it; neither the fault evaluation nor the request handler runs.
C14_CalibrationIgnoresInputs ==
  [][~startupVentDone =>
       /\ ventState' = ventState /\ ventState = "VENT_CLOSED"
       /\ fanSpeed' = fanSpeed /\ FanKilled /\ FanKilled'
       /\ intakeFault' = intakeFault
       /\ activeMode' = activeMode /\ inSubMenu' = inSubMenu
       /\ menuIndex' = menuIndex /\ activeTarget' = activeTarget
       /\ ~tick'.evalRan /\ tick'.web = "none"]_vars

\* C14 witness: a pass in the opening phase of the calibration was presented
\* with a button press, an encoder movement and a startCooldown request.
C14_Witness ==
  /\ call.op = "startup" /\ ~startupVentDone
  /\ startupVentState = "VENT_START_OPENING"
  /\ call.offered = [d |-> 2, btn |-> FALSE, web |-> "start_cooldown"]
  /\ activeMode = 0 /\ FanKilled /\ ventState = "VENT_CLOSED"

\* The calibration phases in the order of the switch in loop(): the phase,
\* the pulse the servo holds during it, and the time it lasts.
CalibrationPhases ==
  << [st |-> "VENT_START_CLOSING", pulse |-> SERVO_FORWARD_PULSE, ms |-> SERVO_CLOSE_TIME],
     [st |-> "VENT_START_WAIT_CLOSED", pulse |-> SERVO_STOP_PULSE, ms |-> STARTUP_PAUSE_MS],
     [st |-> "VENT_START_OPENING", pulse |-> SERVO_REVERSE_PULSE, ms |-> SERVO_OPEN_TIME],
     [st |-> "VENT_START_WAIT_OPEN", pulse |-> SERVO_STOP_PULSE, ms |-> STARTUP_PAUSE_MS],
     [st |-> "VENT_START_CLOSING_AGAIN", pulse |-> SERVO_FORWARD_PULSE, ms |-> SERVO_CLOSE_TIME],
     [st |-> "VENT_START_WAIT_CLOSED_AGAIN", pulse |-> SERVO_STOP_PULSE, ms |-> STARTUP_PAUSE_MS] >>

PhaseIndex(st) == CHOOSE k \in 1..Len(CalibrationPhases) : CalibrationPhases[k].st = st

\* Time from power-up by which the calibration has completed when the passes
\* are at most 500 ms apart.
CalibrationDeadline == 7000

EnteredByWeb == startupVentDone /\ tick'.web = "start_cooldown"

\* A pass in which COOLDOWN was selected with the button and no request was
\* served: the only other way inSubMenu becomes true.
EnteredByButton ==
  /\ startupVentDone /\ ~inSubMenu /\ inSubMenu'
  /\ activeMode' = MODE_COOLDOWN /\ tick'.web = "none"

CooldownRunning ==
  /\ startupVentDone /\ inSubMenu /\ activeMode = MODE_COOLDOWN
  /\ Valid(chamberTemp) /\ ~intakeFault /\ ~CooldownFinished(State)

\* C17: at the end of every pass with a cooldown session running, from the
\* pass of entry on, the fan is powered and its duty is at least 51/255 (20 %).
C17_CooldownMinDuty ==
  CooldownRunning =>
    (fanPower /\ fanDutyCycle >= NORMAL_MIN_DUTY /\ fanPwm >= NORMAL_MIN_DUTY)

\* C18: at the end of a pass in which cooldown was entered or restarted (the
\* startCooldown request served in any mode, or COOLDOWN selected with the
\* button), the session is fresh: the last-sample stamp is the time of the
\* pass, the last-sample temperature is the chamber reading at entry, the
\* cooldown duty is 0, the progress fraction is 0 and the estimate is -1.
C18_FreshSession ==
  /\ [][EnteredByWeb =>
          /\ cooldownLastCheckMs' = 0 /\ cooldownLastTemp' = chamberTemp'
          /\ cooldownFanDuty' = 0 /\ cooldownEstSeconds' = -1
          /\ cooldownProgress' = ZeroFrac]_vars
  /\ [][EnteredByButton /\ Valid(chamberTemp) /\ Valid(chamberTemp') =>
          /\ cooldownLastCheckMs' = 0 /\ cooldownLastTemp' = chamberTemp
          /\ cooldownFanDuty' = 0 /\ cooldownEstSeconds' = -1
          /\ cooldownProgress' = ZeroFrac]_vars

\* C19: a pass of cooldown mode (fault clear, chamber valid) that comes a
\* sampling window or more after the last sample evaluates the window; it
\* takes the finish branch exactly when chamber <= target + 0.5, and at the
\* end of such a pass the fan is hard-killed (duty 0, PWM 0, power cut), the
\* vent is closing or closed, the progress is 1 and the estimate is 0.  Stated
\* for the passes that served no network command.
C19_CooldownFinish ==
  /\ [](tick.window = "finish" /\ tick.web = "none" =>
          /\ CooldownFinished(State)
          /\ FanKilled
          /\ ventState \in {"VENT_CLOSING", "VENT_CLOSED"}
          /\ cooldownProgress = OneFrac /\ cooldownEstSeconds = 0)
  /\ [](tick.window = "adjust" /\ tick.web = "none" => ~CooldownFinished(State))
  /\ [][(/\ tick'.evalRan /\ ~intakeFault' /\ activeMode' = MODE_COOLDOWN
         /\ tick'.web = "none" /\ tick'.window = "none")
        => cooldownLastCheckMs' < COOLDOWN_SAMPLE_MS]_vars

\* C19 witness: a window ended with the chamber at 27.0 and the target at
\* 28.0; the fan is dead, the vent was open and is now closing.
C19_Witness ==
  /\ tick.window = "finish" /\ tick.web = "none"
  /\ chamberTemp = 2700 /\ ambientTemp = 2500
  /\ FanKilled /\ ventState = "VENT_CLOSING"
  /\ cooldownProgress = OneFrac /\ cooldownEstSeconds = 0

(* ======================================================================= *)
(*                    a cooldown session from 60 degrees                   *)
(* ======================================================================= *)
\* The readings the session starts with.
CoolStart == [chamber |-> 6000, ambient |-> 2500]

\* Chamber readings during the session; the chamber does not warm up.
CoolReadings == {6000, 5900, 5850, 5800}

CoolDts == {0, 3500}

\* Sampling windows counted.
MaxCoolWindows == 4

\* The controller calibrated, ambient 25.0, chamber 60.0, intake probe absent:
\* either PLA active (the session will be started by the startCooldown
\* request) or no mode active with the knob on COOLDOWN (started by the
\* button).  call.start is the way the session is started, call.started
\* whether it has been; call.windows counts the sampling windows evaluated;
\* call.before, call.lastTemp and call.elapsed are the cooldown duty, the
\* last-sample temperature and the time since the last sample that the latest
\* window found.
InitCool ==
  /\ \/ /\ \E vc \in {<<"VENT_CLOSED", SERVO_STOP_PULSE>>, <<"VENT_OPEN", SERVO_STOP_PULSE>>} :
             Is(Running(0, CoolStart.chamber, NAN, vc, FanFor(vc[1])))
        /\ call = [op |-> "cool", start |-> "web", started |-> FALSE, windows |-> 0,
                   before |-> 0, lastTemp |-> 0, elapsed |-> 0]
     \/ /\ Is([Running(0, CoolStart.chamber, NAN, <<"VENT_CLOSED", SERVO_STOP_PULSE>>, "FAN_OFF")
                 EXCEPT !.inSubMenu = FALSE, !.menuIndex = MODE_COOLDOWN])
        /\ call = [op |-> "cool", start |-> "button", started |-> FALSE, windows |-> 0,
                   before |-> 0, lastTemp |-> 0, elapsed |-> 0]

CoolPass ==
  /\ call.op = "cool"
  /\ \E dt \in PassTimes(State, CoolDts, MaxCooldownDuty) :
       LET s == Advance(State, dt)
           web == IF ~call.started /\ call.start = "web" THEN "start_cooldown" ELSE "none"
           btn == ~(~call.started /\ call.start = "button")
       IN \E t \in (IF DhtDue(s) THEN {CoolStart.ambient} ELSE {NAN}) :
          \E c \in (IF ReadDue(s) THEN {r \in CoolReadings : r <= chamberTemp} ELSE {NAN}) :
            /\ Becomes(LoopBody(s, 0, btn, t, c, SENSOR_DISCONNECTED, web))
            /\ call' = IF tick'.window = "none"
                       THEN [call EXCEPT !.started = TRUE]
                       ELSE [call EXCEPT !.started = TRUE,
                                         !.windows = IF @ < MaxCoolWindows THEN @ + 1 ELSE @,
                                         !.before = cooldownFanDuty,
                                         !.lastTemp = cooldownLastTemp,
                                         !.elapsed = s.cooldownLastCheckMs]

SpecCool == InitCool /\ [][CoolPass]_vars

\* The end of the first sampling window of the session: 60 s after the sample
\* taken at 60.0, with the chamber at 58.0 and the ambient at 25.0.
ScenarioWindow ==
  /\ call.op = "cool" /\ call.windows = 1 /\ tick.window = "adjust"
  /\ call.lastTemp = CoolStart.chamber /\ call.elapsed = COOLDOWN_SAMPLE_MS
  /\ chamberTemp = 5800 /\ ambientTemp = CoolStart.ambient

ensureOLED(ok) == ok

\* The globals as their initializers leave them, before setup() has run: the
\* servo is not attached (no pulse), the fan pins are not driven, no mode is
\* active.
PowerOn(storedMode) ==
  [Setup(0, CUSTOM_DEFAULT) EXCEPT
     !.servoPulse = 0, !.inSubMenu = FALSE, !.tempsRequested = FALSE,
     !.lastDhtReadMs = 0, !.prefsActiveMode = storedMode]

\* setup() as far as it gets.
Boot(storedMode, ok) ==
  IF ensureOLED(ok) THEN Setup(storedMode, CUSTOM_DEFAULT) ELSE PowerOn(storedMode)

\* call.oled is whether the display answered, call.ms the time since power-up.
InitBoot ==
  \E ok \in BOOLEAN :
     /\ Is(Boot(0, ok))
     /\ call = [op |-> "boot", oled |-> ok, ms |-> 0]

\* setup() is still inside ensureOLED(): a second goes by, loop() is not run.
BootHang ==
  /\ call.op = "boot" /\ ~ensureOLED(call.oled)
  /\ call.ms < MaxStartupMs
  /\ Becomes(State)
  /\ call' = [call EXCEPT !.ms = IF @ + 1000 > MaxStartupMs THEN MaxStartupMs ELSE @ + 1000]

\* setup() has returned: a pass of loop().
BootLoopPass ==
  /\ call.op = "boot" /\ ensureOLED(call.oled)
  /\ \E dt \in StartupDts, c \in {SENSOR_DISCONNECTED, 3300}, i \in {SENSOR_DISCONNECTED, 4000} :
        /\ Becomes(loop(Advance(State, dt), 0, TRUE, 2500, c, i, "none"))
        /\ call' = [call EXCEPT !.ms = IF @ + dt > MaxStartupMs THEN MaxStartupMs ELSE @ + dt]

SpecBoot == InitBoot /\ [][BootHang \/ BootLoopPass]_vars

\* C21: when the display fails to initialize the control loop still runs:
\* once 7 s have passed since power-up the calibration has completed, and the
\* servo is attached and driven.
C21_HeadlessControl ==
  (call.op = "boot" /\ ~call.oled /\ call.ms >= CalibrationDeadline)
    => (startupVentDone /\ servoPulse = SERVO_STOP_PULSE)

(* ======================================================================= *)
(*                      loading the stored settings                        *)
(* ======================================================================= *)
\* Values prefs.getInt("activeMode") and prefs.getFloat("customTarget") may
\* return: in range, on and past the ends of the ranges, and NaN.
StoredModes == {-1, 0, MODE_CUSTOM, MODE_COOLDOWN, MODE_QR, MENU_LEN}

StoredCustoms == {-50, CUSTOM_MIN, 4550, CUSTOM_MAX, CUSTOM_MAX + 50, NAN}

\* call.mode and call.custom are the values found in storage.
InitLoad ==
  \E m \in StoredModes, ct \in StoredCustoms :
     /\ Is(Setup(m, ct))
     /\ call = [op |-> "load", mode |-> m, custom |-> ct]

\* The passes of the calibration that follows setup().
LoadPass ==
  /\ call.op = "load" /\ ~startupVentDone
  /\ \E dt \in StartupDts : Becomes(loop(Advance(State, dt), 0, TRUE, NAN, NAN, NAN, "none"))
  /\ UNCHANGED call

SpecLoad == InitLoad /\ [][LoadPass]_vars

\* C22: after startup, whatever was stored, the active mode is an operating
\* mode (index 0..6), equal to the stored mode when that is one and 0
\* otherwise; the custom target is in [0, 120], equal to the stored one when
\* that is in range and 30.0 otherwise; and the active target is the custom
\* target in custom mode and the preset temperature of the mode otherwise.
C22_LoadValidation ==
  call.op = "load" =>
    /\ activeMode \in 0..MODE_COOLDOWN
    /\ activeMode = (IF call.mode \in 0..MODE_COOLDOWN THEN call.mode ELSE 0)
    /\ customTarget \in CUSTOM_MIN..CUSTOM_MAX
    /\ customTarget = (IF call.custom \in CUSTOM_MIN..CUSTOM_MAX THEN call.custom
                       ELSE CUSTOM_DEFAULT)
    /\ activeTarget = (IF activeMode = MODE_CUSTOM THEN customTarget
                       ELSE menuTargets[activeMode + 1])

(* ======================================================================= *)
(*               the tachometer interrupt and the RPM block                *)
(* ======================================================================= *)
\* ISR invocations followed.
MaxPulses == 4

TachDts == {250, 500}

\* call.fired counts the invocations of fanPulseISR, call.consumed adds up the
\* counts the RPM block has taken (at the moment it zeroes the counter),
\* call.windows counts the RPM samples computed.
InitTach ==
  /\ Is(Calibrated(0))
  /\ call = [op |-> "tach", fired |-> 0, consumed |-> 0, windows |-> 0]

\* A falling edge on the tach pin: the ISR runs, or, with interrupts off, the
\* edge is latched.
TachEdge ==
  /\ call.op = "tach" /\ call.fired < MaxPulses
  /\ IF tach.ie
     THEN Becomes(fanPulseISR(State)) /\ call' = [call EXCEPT !.fired = @ + 1]
     ELSE Becomes([State EXCEPT !.tach.pending = TRUE]) /\ UNCHANGED call

\* Time passes outside the RPM block.
TachTime ==
  /\ call.op = "tach" /\ tach.pc = "loop"
  /\ \E dt \in TachDts :
        /\ tach.lastRpmMs + dt <= MaxRpmElapsedMs
        /\ Becomes(Advance(State, dt))
  /\ UNCHANGED call

\* if (now - lastRpmMs >= RPM_SAMPLE_MS) { noInterrupts();
TachEnter ==
  /\ call.op = "tach" /\ tach.pc = "loop" /\ RpmDue(State)
  /\ Becomes([noInterrupts(State) EXCEPT !.tach.pc = "read"])
  /\ UNCHANGED call

\* unsigned long p = fanPulseCount;
TachRead ==
  /\ call.op = "tach" /\ tach.pc = "read"
  /\ Becomes([RpmRead(State) EXCEPT !.tach.pc = "reset"])
  /\ UNCHANGED call

\* fanPulseCount = 0;
TachReset ==
  /\ call.op = "tach" /\ tach.pc = "reset"
  /\ Becomes([RpmReset(State) EXCEPT !.tach.pc = "enable"])
  /\ call' = [call EXCEPT !.consumed = @ + tach.p]

\* interrupts();
TachEnable ==
  /\ call.op = "tach" /\ tach.pc = "enable"
  /\ Becomes([interrupts(State) EXCEPT !.tach.pc = "compute"])
  /\ call' = [call EXCEPT !.fired = IF tach.pending THEN @ + 1 ELSE @]

\* currentFanRPM = ...; lastRpmMs = now; }
TachCompute ==
  /\ call.op = "tach" /\ tach.pc = "compute"
  /\ Becomes([RpmCompute(State) EXCEPT !.tach.pc = "loop"])
  /\ call' = [call EXCEPT !.windows = IF @ < MaxPulses THEN @ + 1 ELSE @]

SpecTach ==
  InitTach /\ [][TachEdge \/ TachTime \/ TachEnter \/ TachRead \/ TachReset
                   \/ TachEnable \/ TachCompute]_vars

\* C23: under every interleaving of the tach interrupt with the RPM block,
\* the counts the block has taken plus the current value of the counter equal
\* the number of ISR invocations (no pulse is lost or counted twice), and the
\* ISR never runs between the block's read of the counter and its reset.
C23_TachDrainAtomic ==
  /\ [](call.op = "tach" => call.consumed + tach.fanPulseCount = call.fired)
  /\ [][(call.op = "tach" /\ tach.pc \in {"read", "reset"})
          => call'.fired = call.fired]_vars

\* C23 witness: a tach edge arrived between the read (p = 2) and the reset
\* and is latched.
C23_Witness ==
  /\ call.op = "tach" /\ tach.pc = "reset" /\ tach.p = 2 /\ tach.pending
  /\ ~tach.ie /\ call.fired = 2

(* ======================================================================= *)
(*                          the RPM derivation                             *)
(* ======================================================================= *)
\* Pulses counted when the block runs, and the time since the last sample.
RpmPulses == {0, 1, 2, 7, 40, 41}

RpmElapsed == {0, 500, 999, 1000, 1001, 1250, 1500, 2000}

\* call.p and call.elapsed are what the block finds; call.done tells whether
\* the block has been run.
InitRpm ==
  \E p \in RpmPulses, e \in RpmElapsed, r \in {ZeroFrac, Frac(900, 1)} :
     /\ Is([Calibrated(0) EXCEPT !.tach.fanPulseCount = p, !.tach.lastRpmMs = e,
                                 !.tach.currentFanRPM = r])
     /\ call = [op |-> "rpm", p |-> p, elapsed |-> e, was |-> r, done |-> FALSE]

CallRpmStep ==
  /\ call.op = "rpm" /\ ~call.done
  /\ Becomes(RpmStep(State))
  /\ call' = [call EXCEPT !.done = TRUE]

SpecRpm == InitRpm /\ [][CallRpmStep]_vars

\* C24: when the RPM block runs elapsed_ms >= 1000 after the last sample and
\* finds p pulses, currentFanRPM is 0 for p = 0 and p * 60000 / (elapsed_ms * 2)
\* otherwise (p * 30 for 1000 ms), the counter is back at 0 and the sample
\* stamp is now; before 1000 ms have elapsed nothing is changed.
C24_RpmDerivation ==
  (call.op = "rpm" /\ call.done) =>
    IF call.elapsed >= RPM_SAMPLE_MS
    THEN /\ tach.fanPulseCount = 0 /\ tach.lastRpmMs = 0
         /\ tach.currentFanRPM[2] > 0
         /\ tach.currentFanRPM[1] * call.elapsed
              = call.p * 30000 * tach.currentFanRPM[2]
         /\ call.p = 0 => tach.currentFanRPM = ZeroFrac
         /\ call.elapsed = RPM_SAMPLE_MS => tach.currentFanRPM = Frac(call.p * 30, 1)
    ELSE /\ tach.fanPulseCount = call.p /\ tach.lastRpmMs = call.elapsed
         /\ tach.currentFanRPM = call.was

\* C24 witness: 40 pulses in a window of exactly 1000 ms give 1200.
C24_Witness ==
  /\ call.op = "rpm" /\ call.done /\ call.p = 40 /\ call.elapsed = RPM_SAMPLE_MS
  /\ tach.currentFanRPM = Frac(1200, 1) /\ tach.fanPulseCount = 0

(* ======================================================================= *)
(*                     startCooldown applied twice                         *)
(* ======================================================================= *)
\* States the request may find: a preset or cooldown active, any vent state,
\* any fan command, chamber unknown or known, a previous session's duty and
\* progress.  call.n counts the applications, call.from is the vent state
\* before the first, call.once the whole state after the first.
InitIdem ==
  \E m \in {0, MODE_COOLDOWN}, T \in {NAN, 2700, 3300}, vc \in VentConfigs,
     sp \in {"FAN_OFF", "FAN_LOW", "FAN_HIGH"}, duty \in {0, 60} :
     /\ Is([Running(m, T, NAN, vc, sp) EXCEPT
              !.cooldownFanDuty = duty,
              !.cooldownProgress = IF duty = 0 THEN ZeroFrac ELSE OneFrac,
              !.cooldownLastCheckMs = IF m = MODE_COOLDOWN THEN 3500 ELSE STAMP_ZERO])
     /\ call = [op |-> "idem", n |-> 0, from |-> vc[1], once |-> <<>>]

\* handleStartCooldown() served again at the same millis().
CallStartCooldown ==
  /\ call.op = "idem" /\ call.n < 2
  /\ Becomes(handleStartCooldown(State))
  /\ call' = [call EXCEPT !.n = @ + 1,
                          !.once = IF call.n = 0 THEN handleStartCooldown(State) ELSE @]

SpecIdem == InitIdem /\ [][CallStartCooldown]_vars

\* C25: after startCooldown has been applied twice with no pass and no time
\* in between, every variable of the engine (active mode and target,
\* persisted mode, the session fields, the fan output, the vent state, its
\* stamp and the servo pulse) has the value it had after the first
\* application.
C25_StartCooldownIdempotent ==
  (call.op = "idem" /\ call.n = 2) => State = call.once

\* C25 witness: applied twice to a closing vent in a preset with the fan on
\* High: the vent is opening, stamped now, the fan is at true zero.
C25_Witness ==
  /\ call.op = "idem" /\ call.n = 2 /\ call.from = "VENT_CLOSING"
  /\ activeMode = MODE_COOLDOWN /\ inSubMenu /\ prefsActiveMode = MODE_COOLDOWN
  /\ ventState = "VENT_OPENING" /\ ventActionStartMs = 0
  /\ servoPulse = SERVO_REVERSE_PULSE
  /\ fanSpeed = "FAN_HIGH" /\ FanKilled /\ cooldownFanDuty = 0
  /\ cooldownLastCheckMs = 0 /\ cooldownLastTemp = 3300

(* ======================================================================= *)
(*                 stored settings across a restart                        *)
(* ======================================================================= *)
\* The surroundings for the stored settings: the knob turned by one or two
\* detents, left on PLA, CUSTOM or COOLDOWN in the menu, the custom target
\* dialled near the top of its range, the startCooldown request; one chamber
\* reading, no cooldown window followed.
PersistEnv ==
  [dt |-> {0, 3500},
   turns |-> {-2, -1, 0, 1, 2},
   menuStops |-> {0, MODE_CUSTOM, MODE_COOLDOWN},
   customStops |-> {CUSTOM_MAX - 100, CUSTOM_MAX - 50, CUSTOM_MAX},
   chamber |-> {3300},
   intake |-> {SENSOR_DISCONNECTED},
   ambient |-> {2500},
   web |-> {"none", "start_cooldown"},
   maxDuty |-> 0]

MaxRestarts == 1

\* call.restarts counts the restarts; call.before holds the active mode and
\* the custom target at the moment of the last one.
InitPersist ==
  /\ Is(Setup(0, CUSTOM_MAX - 100))
  /\ call = [op |-> "persist", restarts |-> 0, before |-> <<0, CUSTOM_MAX - 100>>]

\* Power is cycled: setup() runs again on what is in persistent storage.
Restart ==
  /\ call.op = "persist" /\ call.restarts < MaxRestarts
  /\ Becomes(Setup(prefsActiveMode, prefsCustomTarget))
  /\ call' = [call EXCEPT !.restarts = @ + 1, !.before = <<activeMode, customTarget>>]

SpecPersist ==
  InitPersist /\ [][StartupPass(PersistEnv) \/ ControlPass(PersistEnv) \/ Restart]_vars

DutyFor(sp) ==
  IF sp = "FAN_HIGH" THEN FAN_HIGH_DUTY ELSE IF sp = "FAN_LOW" THEN FAN_LOW_DUTY ELSE 0

\* The end of a pass in a normal mode with the fault clear and the chamber
\* reading valid, no request served.
NormalPass ==
  /\ startupVentDone /\ inSubMenu /\ activeMode # MODE_COOLDOWN
  /\ tick.evalRan /\ ~intakeFault /\ Valid(chamberTemp) /\ tick.web = "none"

\* C27: at the end of every pass in a normal mode with the fault clear and
\* the chamber reading valid, the fan command and output match the vent
\* target: Off (duty 0, power cut) with the vent closed or closing, Low (140)
\* with it half open or opening to half, High (255) with it fully open or
\* opening fully.
C27_FanMatchesVent ==
  NormalPass =>
    /\ fanSpeed = FanFor(ventState)
    /\ fanDutyCycle = DutyFor(FanFor(ventState))
    /\ fanPower = (FanFor(ventState) # "FAN_OFF")
    /\ fanPwm = DutyFor(FanFor(ventState))

\* Chamber readings relative to the target, on and around every band edge.
HystOffsets ==
  {-300, -201, -200, -199, -101, -100, -99, 0, 99, 100, 101, 199, 200, 201, 300}

HystTargets == {3000, 4550}

\* The normal-mode branch applied to one state: call.before is the state it
\* found, call.done whether it has been applied.
InitHyst ==
  \E tg \in HystTargets, off \in HystOffsets, vc \in VentConfigs,
     sp \in {"FAN_OFF", "FAN_LOW", "FAN_HIGH"} :
     LET s == [Running(MODE_CUSTOM, tg + off, NAN, vc, sp) EXCEPT
                 !.customTarget = tg, !.activeTarget = tg, !.prefsCustomTarget = tg]
     IN /\ Is(s)
        /\ call = [op |-> "hyst", before |-> s, done |-> FALSE]

CallNormalStep ==
  /\ call.op = "hyst" /\ ~call.done
  /\ Becomes(NormalStep(State))
  /\ call' = [call EXCEPT !.done = TRUE]

SpecHyst == InitHyst /\ [][CallNormalStep]_vars

\* The reference function: the vent command and the fan command for a
\* reading, a target and a vent state.
RefCommand(temp, target, vs) ==
  IF vs = "VENT_CLOSED"
  THEN IF temp > target + 200 THEN <<"open_full", "FAN_HIGH">>
       ELSE IF temp > target - 100 THEN <<"open_half", "FAN_LOW">>
       ELSE <<"none", "none">>
  ELSE IF vs \in HalfWay
  THEN IF temp < target - 200 THEN <<"close", "FAN_OFF">>
       ELSE IF temp > target + 200 THEN <<"open_full", "FAN_HIGH">>
       ELSE <<"none", "none">>
  ELSE IF vs \in FullWay
  THEN IF temp <= target + 100 THEN <<"open_half", "FAN_LOW">>
       ELSE <<"none", "none">>
  ELSE <<"none", "none">>

\* A pair of commands carried out by the actuators.
ApplyCommand(s, cmd) ==
  LET v == IF cmd[1] = "open_full" THEN startOpenVent(s, FALSE)
           ELSE IF cmd[1] = "open_half" THEN startOpenVent(s, TRUE)
           ELSE IF cmd[1] = "close" THEN startCloseVent(s)
           ELSE s
  IN IF cmd[2] = "none" THEN v ELSE updateFan(v, cmd[2])

\* C28: the normal-mode branch leaves the state that the commands of the
\* reference function leave, for every reading, vent state and fan command it
\* may find; from a vent that is fully open or opening fully it never closes,
\* and with the vent closing it changes nothing.
C28_HysteresisReference ==
  (call.op = "hyst" /\ call.done) =>
    /\ State = ApplyCommand(call.before,
                            RefCommand(call.before.chamberTemp, call.before.activeTarget,
                                       call.before.ventState))
    /\ call.before.ventState \in FullWay => ventState \notin {"VENT_CLOSING", "VENT_CLOSED"}
    /\ call.before.ventState = "VENT_CLOSING" => State = call.before

\* C28 witness: the branch found the vent fully open and the reading exactly
\* 1.0 above the target, and has sent the vent to half with the fan on Low.
C28_Witness ==
  /\ call.op = "hyst" /\ call.done
  /\ call.before.ventState = "VENT_OPEN" /\ call.before.fanSpeed = "FAN_HIGH"
  /\ chamberTemp = activeTarget + 100
  /\ ventState = "VENT_HALF_OPENING" /\ servoPulse = SERVO_FORWARD_PULSE
  /\ fanSpeed = "FAN_LOW" /\ fanDutyCycle = FAN_LOW_DUTY


\* ---------------------------------------------------------------------------
\* The vent transition table, in steps fine enough to tell the travel times
\* apart.

\* The shortest pass of loop(), in ms.
MinPassMs == 25

\* Lengths of a pass of loop(), in ms.
TableDts == {MinPassMs, 2 * MinPassMs}

\* How many commands are issued in a run.
MaxTableCalls == 2

\* The travel a command starts, by the state it is issued in.
VentTable ==
  [from : {"VENT_CLOSED", "VENT_HALF_OPEN", "VENT_HALF_OPENING", "VENT_CLOSING"},
   op : {"startOpenVent"}, half : {FALSE},
   flight : {"VENT_OPENING"}, pulse : {SERVO_REVERSE_PULSE},
   stable : {"VENT_OPEN"}, t : {SERVO_OPEN_TIME}]
  \cup
  {[from |-> "VENT_CLOSED", op |-> "startOpenVent", half |-> TRUE,
    flight |-> "VENT_HALF_OPENING", pulse |-> SERVO_REVERSE_PULSE,
    stable |-> "VENT_HALF_OPEN", t |-> SERVO_HALF_OPEN_TIME],
   [from |-> "VENT_OPEN", op |-> "startOpenVent", half |-> TRUE,
    flight |-> "VENT_HALF_OPENING", pulse |-> SERVO_FORWARD_PULSE,
    stable |-> "VENT_HALF_OPEN", t |-> SERVO_FULL_TO_HALF_TIME]}
  \cup
  [from : {"VENT_OPEN", "VENT_HALF_OPEN", "VENT_OPENING", "VENT_HALF_OPENING"},
   op : {"startCloseVent"}, half : {FALSE},
   flight : {"VENT_CLOSING"}, pulse : {SERVO_FORWARD_PULSE},
   stable : {"VENT_CLOSED"}, t : {SERVO_CLOSE_TIME}]

InitTable ==
  /\ \E vc \in VentConfigs, e \in VentStamps :
        Is([Running(0, NAN, NAN, vc, "FAN_OFF") EXCEPT !.ventActionStartMs = e])
  /\ call = [op |-> "table", cmd |-> "none", half |-> FALSE, from |-> "none",
             ms |-> 0, n |-> 0]

\* A command is issued; the ghost notes it, the state it found and the time.
TableCommand ==
  /\ call.op = "table" /\ call.n < MaxTableCalls
  /\ \E c \in VentCommands :
        /\ Becomes(IF c.op = "startOpenVent" THEN startOpenVent(State, c.half)
                   ELSE startCloseVent(State))
        /\ call' = [call EXCEPT !.cmd = c.op, !.half = c.half,
                                !.from = ventState, !.ms = 0, !.n = @ + 1]

\* A pass of loop(): time passes and processVentState() runs.
TableTick ==
  /\ call.op = "table"
  /\ \E dt \in TableDts :
        /\ Becomes(processVentState(Advance(State, dt)))
        /\ call' = [call EXCEPT !.ms = Elapse(@, dt, SERVO_CLOSE_TIME)]

SpecTable == InitTable /\ [][TableCommand \/ TableTick]_vars

\* The row of the table the last command falls in, if any.
TableRows ==
  {r \in VentTable : r.from = call.from /\ r.op = call.cmd /\ r.half = call.half}

\* C29: a command issued in one of the listed states restarts the
\* transition timestamp and drives the servo in the row's direction in the
\* row's in-flight state until the row's time has elapsed, and from then on
\* the vent rests stopped in the row's stable state: open(full) from Closed,
\* HalfOpen, OpeningHalf or Closing takes 850 ms to FullOpen; open(half)
\* from Closed takes 425 ms to HalfOpen; open(half) from FullOpen runs in
\* the closing direction for 750 ms to HalfOpen; close() from FullOpen,
\* HalfOpen, OpeningFull or OpeningHalf takes 1100 ms to Closed.
C29_VentTransitionTable ==
  \A r \in TableRows :
     IF call.ms < r.t
     THEN /\ ventState = r.flight
          /\ servoPulse = r.pulse
          /\ ventActionStartMs = call.ms
     ELSE /\ ventState = r.stable
          /\ servoPulse = SERVO_STOP_PULSE

\* The vent has come from full open to half open, 750 ms after the command.
C29_Witness ==
  /\ call.op = "table" /\ call.cmd = "startOpenVent" /\ call.half
  /\ call.from = "VENT_OPEN"
  /\ call.ms >= SERVO_FULL_TO_HALF_TIME
  /\ call.ms < SERVO_FULL_TO_HALF_TIME + MinPassMs
  /\ ventState = "VENT_HALF_OPEN" /\ servoPulse = SERVO_STOP_PULSE


\* ---------------------------------------------------------------------------
\* Timing of processVentState(), pass by pass.

InFlight(vs) == vs \in {"VENT_HALF_OPENING", "VENT_OPENING", "VENT_CLOSING"}

\* The stable state an in-flight state ends in.
StableOf(vs) ==
  CASE vs = "VENT_HALF_OPENING" -> "VENT_HALF_OPEN"
    [] vs = "VENT_OPENING" -> "VENT_OPEN"
    [] vs = "VENT_CLOSING" -> "VENT_CLOSED"
    [] OTHER -> vs

\* The duration of the transition in flight.
TravelTime(vs, pulse) ==
  CASE vs = "VENT_HALF_OPENING" /\ pulse = SERVO_FORWARD_PULSE -> SERVO_FULL_TO_HALF_TIME
    [] vs = "VENT_HALF_OPENING" /\ pulse # SERVO_FORWARD_PULSE -> SERVO_HALF_OPEN_TIME
    [] vs = "VENT_OPENING" -> SERVO_OPEN_TIME
    [] OTHER -> SERVO_CLOSE_TIME

\* What a pass does to a transition in flight, given the time on the stamp
\* when processVentState() runs.
TickOutcome ==
  InFlight(ventState) =>
     IF ventActionStartMs' < TravelTime(ventState, servoPulse)
     THEN ventState' = ventState /\ servoPulse' = servoPulse
     ELSE ventState' = StableOf(ventState) /\ servoPulse' = SERVO_STOP_PULSE

\* Once time has passed, no transition is in flight longer than it lasts,
\* and none is in flight SERVO_CLOSE_TIME after the last command.
FlightBounded ==
  (InFlight(ventState) /\ call.ms > 0) =>
     /\ ventActionStartMs < TravelTime(ventState, servoPulse)
     /\ call.ms < SERVO_CLOSE_TIME

\* C30: on a pass, an in-flight vent state stays in flight while the time
\* since its start timestamp is below the duration of its transition, and
\* becomes its stable state, with the servo stopped, on the first pass where
\* that time has reached the duration; only a command changes an in-flight
\* state otherwise.  With every pass taking at least MinPassMs, no
\* transition is still in flight SERVO_CLOSE_TIME after the last command.
C30_VentTickTiming ==
  /\ [][TableTick => TickOutcome]_vars
  /\ [][(InFlight(ventState) /\ ventState' # ventState) =>
           (TableTick \/ ventActionStartMs' = 0)]_vars
  /\ []FlightBounded

\* A closing vent has come to rest, SERVO_CLOSE_TIME after the command.
C30_Witness ==
  /\ call.op = "table" /\ call.cmd = "startCloseVent"
  /\ call.from = "VENT_HALF_OPENING"
  /\ call.ms = SERVO_CLOSE_TIME
  /\ ventState = "VENT_CLOSED" /\ servoPulse = SERVO_STOP_PULSE


\* ---------------------------------------------------------------------------
\* The servo output against the vent state.

\* C31: once the startup calibration is done, the servo is stopped whenever
\* the vent state is VENT_CLOSED, VENT_HALF_OPEN or VENT_OPEN, is driven in
\* the opening direction whenever it is VENT_OPENING, in the closing
\* direction whenever it is VENT_CLOSING, and in one of the two directions
\* whenever it is VENT_HALF_OPENING; the vent state is always one of the six.
C31_ServoMatchesVentState ==
  startupVentDone =>
     /\ ventState \in VentStates
     /\ ventState \in StableVent => servoPulse = SERVO_STOP_PULSE
     /\ ventState = "VENT_OPENING" => servoPulse = SERVO_REVERSE_PULSE
     /\ ventState = "VENT_CLOSING" => servoPulse = SERVO_FORWARD_PULSE
     /\ ventState = "VENT_HALF_OPENING" =>
           servoPulse \in {SERVO_REVERSE_PULSE, SERVO_FORWARD_PULSE}

\* A pass has left the vent open and at rest after a full opening.
C31_Witness ==
  /\ startupVentDone /\ tick.evalRan
  /\ ventState = "VENT_OPEN" /\ servoPulse = SERVO_STOP_PULSE


\* ---------------------------------------------------------------------------
\* The sampling-window step of the cooldown controller, applied on its own.

\* Cooldown duties the window finds.
RateDuties == {0, 10, 20, 128, 235, 236, 245, 255}

\* Drops since the last sample, in hundredths of a degree: on and around the
\* two band edges for each of the window lengths below, none, and a rise.
RateDrops ==
  {-50, 0, 119, 120, 121, 179, 180, 181, 239, 240, 241, 269, 270, 271, 359, 360, 361}

\* Times since the last sample at which the window is evaluated.
RateElapsed == {COOLDOWN_SAMPLE_MS, 90000, MaxCooldownElapsedMs}

\* The chamber reading of the window, well above the finish threshold.
RateChamber == [chamber |-> 5000]

\* A cooldown session at the end of a sampling window: call.before is the
\* state the pass finds, call.done whether the controller has run.
InitRate ==
  \E duty \in RateDuties, drop \in RateDrops, e \in RateElapsed :
     LET r == Running(MODE_COOLDOWN, RateChamber.chamber, NAN,
                      <<"VENT_OPEN", SERVO_STOP_PULSE>>, "FAN_OFF")
         s == setFanDuty([r EXCEPT !.cooldownLastTemp = RateChamber.chamber + drop,
                                   !.cooldownLastCheckMs = e,
                                   !.cooldownFanDuty = duty,
                                   !.cooldownEstSeconds = -1], duty, TRUE)
     IN /\ Is(s)
        /\ call = [op |-> "rate", before |-> s, done |-> FALSE]

CallCooldownStep ==
  /\ call.op = "rate" /\ ~call.done
  /\ Becomes(CooldownStep(State))
  /\ call' = [call EXCEPT !.done = TRUE]

SpecRate == InitRate /\ [][CallCooldownStep]_vars

\* The duty the claim gives for a drop (hundredths of a degree) over elapsed
\* ms: the rate drop * 60000 / elapsed against 1.2 and 1.8 degrees a minute.
RefDuty(duty, drop, elapsed) ==
  IF drop * 60000 < 120 * elapsed THEN constrain(duty + 20, 0, 255)
  ELSE IF drop * 60000 > 180 * elapsed THEN constrain(duty - 20, 0, 255)
  ELSE duty

C33_ProgressCumulative ==
  (call.op = "cool" /\ tick.window = "adjust") =>
    /\ cooldownProgress = ClampFrac(CoolStart.chamber - chamberTemp,
                                    CoolStart.chamber - CooldownTarget(State))
    /\ cooldownProgress[1] >= 0 /\ cooldownProgress[1] <= cooldownProgress[2]


\* ---------------------------------------------------------------------------
\* The estimate of the remaining time, for every way into cooldown mode.

\* The surroundings of a controller that finds PLA or COOLDOWN in storage:
\* the knob is not turned, the chamber is above or below the finish
\* threshold or its probe gives no reading, the intake probe is absent.
ResumeEnv ==
  [dt |-> {0, 3500},
   turns |-> {0},
   menuStops |-> {0, MODE_COOLDOWN},
   customStops |-> {3000},
   chamber |-> {SENSOR_DISCONNECTED, 2700, 3200, 3300},
   intake |-> {SENSOR_DISCONNECTED},
   ambient |-> {2500},
   web |-> {"none", "start_cooldown"},
   maxDuty |-> COOLDOWN_DUTY_STEP]

SpecResume ==
  InitFrom({0, MODE_COOLDOWN}, {3000})
    /\ [][StartupPass(ResumeEnv) \/ ControlPass(ResumeEnv)]_vars

CooldownActive == inSubMenu /\ activeMode = MODE_COOLDOWN

\* C34: with cooldown the active mode, the estimate is the negative sentinel
\* from the start of the session (the pass of the startCooldown request, the
\* pass of the selection by the button, or power-up with COOLDOWN restored
\* from storage) until a sampling window has measured a falling temperature,
\* and it becomes 0 only in a window that finds the session finished.
C34_EstimateSentinel ==
  /\ [](~startupVentDone /\ CooldownActive => cooldownEstSeconds < 0)
  /\ [][(EnteredByWeb \/ EnteredByButton) => cooldownEstSeconds' < 0]_vars
  /\ [][(CooldownActive' /\ cooldownEstSeconds' = 0) =>
          \/ tick'.window = "finish"
          \/ CooldownActive /\ cooldownEstSeconds = 0]_vars
  /\ [][(CooldownActive /\ CooldownActive' /\ cooldownEstSeconds < 0
         /\ cooldownEstSeconds' > 0) =>
          (tick'.window = "adjust" /\ cooldownLastTemp > chamberTemp')]_vars


\* ---------------------------------------------------------------------------
\* A finished cooldown session.

\* What the finish branch leaves: the fan hard-killed, the vent closing or
\* closed, progress 1, estimate 0, cooldown still the active mode.
SessionFinished ==
  /\ startupVentDone /\ CooldownActive
  /\ FanKilled /\ ventState \in {"VENT_CLOSING", "VENT_CLOSED"}
  /\ cooldownProgress = OneFrac /\ cooldownEstSeconds = 0

\* C35: a finished session stays finished over every pass that leaves
\* cooldown the active mode, asserts no fault and serves no request: the
\* vent is not re-opened and the fan is not restarted, whatever the chamber
\* and ambient readings of the pass.
C35_FinishedStaysFinished ==
  [][(SessionFinished /\ CooldownActive' /\ ~intakeFault' /\ tick'.web = "none")
       => SessionFinished']_vars


\* ---------------------------------------------------------------------------
\* The passes of a cooldown session between two sampling windows.

\* A pass of a cooldown session that ran the controller (chamber valid, no
\* fault), evaluated no sampling window and served no request.
BetweenWindows ==
  /\ startupVentDone /\ CooldownActive /\ CooldownActive'
  /\ tick'.evalRan /\ ~intakeFault'
  /\ tick'.window = "none" /\ tick'.web = "none"

\* The pass leaves the fan and the controller's duty, progress and estimate
\* alone.
FanAndSessionKept ==
  /\ fanSpeed' = fanSpeed /\ fanDutyCycle' = fanDutyCycle
  /\ fanPower' = fanPower /\ fanPwm' = fanPwm
  /\ cooldownFanDuty' = cooldownFanDuty
  /\ cooldownProgress' = cooldownProgress
  /\ cooldownEstSeconds' = cooldownEstSeconds

\* The last sample is left alone: same temperature, same stamp (the time
\* since it has not gone back).
SampleKept ==
  /\ cooldownLastTemp' = cooldownLastTemp
  /\ cooldownLastCheckMs # STAMP_ZERO
  /\ cooldownLastCheckMs' >= cooldownLastCheckMs

\* The only vent command of the pass: fully open, given when the session is
\* not finished and the vent is neither opening fully nor fully open.
VentKeptOpen ==
  IF CooldownFinished(State)'
  THEN ventState' \in {ventState, StableOf(ventState)}
  ELSE ventState' \in FullWay

\* C36 as claimed: a pass between sampling windows leaves the fan, the
\* duty, the last sample, the progress and the estimate unchanged, and its
\* only action is the vent command.
C36_NothingBetweenWindows ==
  [][BetweenWindows => (FanAndSessionKept /\ SampleKept /\ VentKeptOpen)]_vars

\* C36 amended: as claimed, except that a session without a sample (its
\* stamp never taken, or its last-sample temperature unknown) takes the
\* reading and the time of the pass as its last sample.
C36_FirstSampleBetweenWindows ==
  [][BetweenWindows =>
       /\ FanAndSessionKept
       /\ VentKeptOpen
       /\ IF cooldownLastCheckMs = STAMP_ZERO \/ isnan(cooldownLastTemp)
          THEN cooldownLastTemp' = chamberTemp' /\ cooldownLastCheckMs' = 0
          ELSE SampleKept]_vars

\* A pass between windows has sent the closed vent of an unfinished session,
\* sampled 3.5 s before, to fully open.
C36_Witness ==
  /\ startupVentDone /\ CooldownActive /\ tick.evalRan /\ ~intakeFault
  /\ tick.window = "none" /\ tick.web = "none"
  /\ ~CooldownFinished(State)
  /\ ventState = "VENT_OPENING" /\ ventActionStartMs = 0
  /\ cooldownLastCheckMs = 3500 /\ cooldownLastTemp = 2700


\* ---------------------------------------------------------------------------
\* The passes that end with the fault asserted.

\* The surroundings of a fault in PLA (target 30.0): the chamber at the
\* target or 3.0 below it, the intake 6.0 or 1.0 above the target, the
\* button free.
SuppressEnv ==
  [dt |-> {0, 3500},
   turns |-> {0},
   menuStops |-> {0},
   customStops |-> {3000},
   chamber |-> {2700, 3000},
   intake |-> {3100, 3600},
   ambient |-> {2500},
   web |-> {"none"},
   maxDuty |-> 0]

SpecSuppress ==
  InitFrom({0}, {3000}) /\ [][StartupPass(SuppressEnv) \/ ControlPass(SuppressEnv)]_vars

\* A pass whose control section ran and left the fault asserted, with no
\* request served.
FaultPass ==
  startupVentDone /\ tick'.evalRan /\ intakeFault' /\ tick'.web = "none"

\* The cooldown session is as the pass found it.
SessionKept ==
  /\ cooldownFanDuty' = cooldownFanDuty
  /\ cooldownLastTemp' = cooldownLastTemp
  /\ cooldownLastCheckMs' >= cooldownLastCheckMs
  /\ cooldownProgress' = cooldownProgress
  /\ cooldownEstSeconds' = cooldownEstSeconds

\* The actuators have received the commands of the fault alone: fan High,
\* the vent fully open in the pass that asserts the fault and no vent
\* command in a pass that finds it asserted.
FaultCommandsOnly ==
  /\ fanSpeed' = "FAN_HIGH"
  /\ IF intakeFault THEN ventState' \in {ventState, StableOf(ventState)}
     ELSE ventState' \in FullWay

\* C37: on every pass that ends with the fault asserted after its
\* evaluation, no vent or fan command of the active mode is carried out and
\* the cooldown session (duty, last sample, progress, estimate) is left as
\* it was: the fault is evaluated before anything of the mode runs.
C37_FaultSuppression ==
  [][FaultPass => (SessionKept /\ FaultCommandsOnly)]_vars


\* ---------------------------------------------------------------------------
\* The request / collect protocol of the two contact probes.

ProbeDts == {250, 500}

\* Raw values the chamber and intake probes return to a collect.
ProbeChamber == {SENSOR_DISCONNECTED, SENSOR_POWER_ON, 2950, 3050}
ProbeIntake == {SENSOR_DISCONNECTED, 3000}

\* Largest time since the last request that is kept.
MaxProbeMs == 2000

\* Power-up in PLA.  call.ms is the time since the last request; call.at is
\* what that time was when the last pass began; call.c and call.i are the
\* raw values the probes held for the last pass.
InitProbe ==
  /\ Is(Setup(0, CUSTOM_DEFAULT))
  /\ call = [op |-> "probe", ms |-> 0, at |-> 0, c |-> NAN, i |-> NAN]

ProbePass ==
  /\ call.op = "probe"
  /\ \E dt \in ProbeDts, c \in ProbeChamber, i \in ProbeIntake :
        /\ Becomes(loop(Advance(State, dt), 0, TRUE, 2500, c, i, "none"))
        /\ call' = [call EXCEPT
                      !.at = Elapse(call.ms, dt, MaxProbeMs),
                      !.ms = IF lastTempRequestMs' = 0 THEN 0
                             ELSE Elapse(call.ms, dt, MaxProbeMs),
                      !.c = c, !.i = i]

SpecProbe == InitProbe /\ [][ProbePass]_vars

\* The pass issued a request: the request stamp is the time of the pass.
Requested == lastTempRequestMs' = 0

\* The pass collected: the outstanding request is no longer outstanding.
Collected == tempsRequested /\ ~tempsRequested'

\* What a raw probe value is stored as.
StoredAs(raw) ==
  IF raw = SENSOR_DISCONNECTED \/ raw = SENSOR_POWER_ON THEN NAN ELSE raw

\* C38: a pass collects only with a request outstanding that is at least
\* 750 ms old, and stores the disconnected sentinel as unknown; it issues a
\* request only with none outstanding and at least 1000 ms after the
\* previous one; it never does both; the stored readings change in no other
\* pass; and a request is outstanding exactly from the pass that issues it
\* to the pass that collects, so the two alternate.
C38_ProbeProtocol ==
  /\ [][Collected =>
          /\ call'.at >= DS_CONV_MS
          /\ chamberTemp' = StoredAs(call'.c) /\ intakeTemp' = StoredAs(call'.i)
          /\ chamberTemp' # SENSOR_DISCONNECTED /\ intakeTemp' # SENSOR_DISCONNECTED
          /\ ~Requested]_vars
  /\ [][Requested => (~tempsRequested /\ tempsRequested' /\ call'.at >= TEMP_REQUEST_MS)]_vars
  /\ [][~Collected => (chamberTemp' = chamberTemp /\ intakeTemp' = intakeTemp)]_vars
  /\ [][(tempsRequested' # tempsRequested) => (Requested \/ Collected)]_vars

\* A collect 750 ms after the request has stored the disconnected chamber
\* probe as unknown and the intake reading as 30.0.
C38_Witness ==
  /\ call.op = "probe" /\ startupVentDone /\ ~tempsRequested
  /\ call.at = DS_CONV_MS /\ call.ms = DS_CONV_MS
  /\ call.c = SENSOR_DISCONNECTED /\ chamberTemp = NAN
  /\ call.i = 3000 /\ intakeTemp = 3000


\* ---------------------------------------------------------------------------
\* The menu index under encoder movements of any size.

\* Encoder movements between two passes, in counts.
MaxMove == 17
MenuMoves == (-MaxMove .. MaxMove) \ {0}

\* What a read outside menuTargets may return.
StrayTargets == {NAN, 0, 3000}

\* The main menu, on any of its entries, the chamber at 33.0.  call.d is the
\* movement made, call.moved and call.pressed tell what has been done.
InitMenu ==
  /\ \E m \in 0 .. (MENU_LEN - 1) :
        Is([Running(0, 3300, NAN, <<"VENT_CLOSED", SERVO_STOP_PULSE>>, "FAN_OFF")
              EXCEPT !.inSubMenu = FALSE, !.menuIndex = m])
  /\ call = [op |-> "menu", d |-> 0, moved |-> FALSE, pressed |-> FALSE]

\* The knob is turned by d counts and the encoder code of loop() runs.
CallEncoderStep ==
  /\ call.op = "menu" /\ ~call.moved
  /\ \E d \in MenuMoves :
        /\ Becomes(EncoderStep(State, d))
        /\ call' = [call EXCEPT !.d = d, !.moved = TRUE]

\* The selection made with menuIndex outside the table: activeTarget is read
\* from outside menuTargets and is whatever lies there.
SelectStray(s, any) ==
  LET s1 == [s EXCEPT !.activeMode = s.menuIndex,
                      !.activeTarget = any,
                      !.prefsActiveMode = s.menuIndex,
                      !.inSubMenu = TRUE,
                      !.waitingForSecondSHOW = FALSE,
                      !.lastBtnPressMs = 0,
                      !.lastBtn = FALSE]
  IN SelectCooldown(SelectPreset(s1))

\* The button is pressed and the button code of loop() runs.
MenuPress ==
  /\ call.op = "menu" /\ call.moved /\ ~call.pressed
  /\ IF menuIndex \in 0 .. (MENU_LEN - 1)
     THEN Becomes(ButtonStep(State, FALSE))
     ELSE \E any \in StrayTargets : Becomes(SelectStray(State, any))
  /\ call' = [call EXCEPT !.pressed = TRUE]

SpecMenu == InitMenu /\ [][CallEncoderStep \/ MenuPress]_vars

\* C39: after an encoder movement of any size and sign the menu index is
\* within 0..7, and the mode made active by a selection is within 0..6.
C39_ModeIndexBounds ==
  call.op = "menu" =>
    /\ menuIndex \in 0 .. 7
    /\ (call.pressed /\ inSubMenu) => activeMode \in 0 .. 6


\* ---------------------------------------------------------------------------
\* The two ways to half open.

\* The local t of startOpenVent(): the duration it chooses for the travel it
\* starts from vent state vs.
OpenVentTime(vs, half) ==
  IF half /\ vs = "VENT_OPEN" THEN SERVO_FULL_TO_HALF_TIME
  ELSE IF half THEN SERVO_HALF_OPEN_TIME
  ELSE SERVO_OPEN_TIME

\* The last command was a half opening that startOpenVent() accepts.
HalfOpeningStarted ==
  /\ call.op = "table" /\ call.cmd = "startOpenVent" /\ call.half
  /\ call.from \in {"VENT_CLOSED", "VENT_OPENING", "VENT_CLOSING", "VENT_OPEN"}

\* C40: a half opening is driven in the closing direction and ends 750 ms
\* after the command if and only if it was started from VENT_OPEN; started
\* from VENT_CLOSED, VENT_OPENING or VENT_CLOSING it is driven in the opening
\* direction and ends after 425 ms; while it is in flight the duration that
\* processVentState() derives from the servo pulse is the duration
\* startOpenVent() chose for it.
C40_HalfOpeningDirection ==
  HalfOpeningStarted =>
    LET t == OpenVentTime(call.from, TRUE)
    IN /\ t = (IF call.from = "VENT_OPEN" THEN 750 ELSE 425)
       /\ IF call.ms < t
          THEN /\ ventState = "VENT_HALF_OPENING"
               /\ servoPulse = SERVO_FORWARD_PULSE <=> call.from = "VENT_OPEN"
               /\ servoPulse = SERVO_REVERSE_PULSE <=> call.from # "VENT_OPEN"
               /\ TravelTime(ventState, servoPulse) = t
          ELSE ventState = "VENT_HALF_OPEN" /\ servoPulse = SERVO_STOP_PULSE

\* A half opening commanded while the vent was closing is in flight, 400 ms
\* after the command, driven in the opening direction.
C40_Witness ==
  /\ HalfOpeningStarted /\ call.from = "VENT_CLOSING"
  /\ call.ms >= SERVO_HALF_OPEN_TIME - MinPassMs /\ call.ms < SERVO_HALF_OPEN_TIME
  /\ ventState = "VENT_HALF_OPENING" /\ servoPulse = SERVO_REVERSE_PULSE

====
